---- MODULE Spec2Model ----
(***************************************************************************)
(* A model of the Monkey interpreter's tree-walking evaluator              *)
(* (src/evaluator/evaluator.go, src/object/environment.go).                *)
(*                                                                         *)
(* AST nodes and runtime objects are tagged tuples: the first element is   *)
(* the Go type (AST) or the value of Type() (objects), the rest are the    *)
(* fields in declaration order.  Accessors carry the Go field names.       *)
(***************************************************************************)
EXTENDS Integers, Sequences, FiniteSets, TLC

\* the evaluator: the program, its environment, evalProgram's loop
VARIABLES program, env, idx, result, pc, log
\* the environments allocated so far and the last lookup made in them
VARIABLES heap, last

\* the Parser, the statements of the Program it builds, ParseProgram's loop
VARIABLES parser, ast, ppc
\* the lexer under its caller and the tokens NextToken has returned to it
VARIABLES lexer, tokens

evalVars == <<program, env, idx, result, pc, log>>
envVars == <<heap, last>>
parserVars == <<parser, ast, ppc>>
lexerVars == <<lexer, tokens>>
vars == <<evalVars, envVars, parserVars, lexerVars>>

----------------------------------------------------------------------------
(* Bounds *)

\* width of the Integer object's value; int64 in the source, scaled down
IntBits == 3
\* width of the parser's int64 (IntegerLiteral.Value), wide enough for a
\* two-digit literal to fit; the parser's values never reach the evaluator
\* of this model
LitBits == 5
\* longest run of digits given to the parser as one literal
MaxDigits == 2
\* longest program (number of top-level statements)
MaxStmts == 3
\* deepest nesting of if-blocks in the generated programs
MaxDepth == 3
\* most environments allocated
MaxEnvs == 3
\* most names bound in the allocated environments together
MaxBindings == 3
\* most operators in a chain of infix operators
MaxChain == 3
\* most COMMENT tokens put into a token stream
MaxComments == 2
\* longest input given to the lexer on its own
MaxInput == 3
\* most NextToken calls made on one lexer
MaxCalls == 6

Modulus == 2 ^ IntBits
MaxInt == 2 ^ (IntBits - 1) - 1
MinInt == 0 - 2 ^ (IntBits - 1)

----------------------------------------------------------------------------
(* object.Object: the runtime values *)

INTEGER_OBJ == "INTEGER"
BOOLEAN_OBJ == "BOOLEAN"
NULL_OBJ == "NULL"
RETURN_VALUE_OBJ == "RETURN_VALUE"
ERROR_OBJ == "ERROR"

\* a nil object.Object interface value
Nil == <<"nil">>

\* the three global objects; the second field of a Boolean or Null is its
\* address: one of the globals, or "new" for an object allocated by &object.X{}
NULL == <<NULL_OBJ, "NULL">>
ObjTRUE == <<BOOLEAN_OBJ, "TRUE", TRUE>>
ObjFALSE == <<BOOLEAN_OBJ, "FALSE", FALSE>>

\* &object.Integer{Value: v}
NewInteger(v) == <<INTEGER_OBJ, v>>
\* &object.Boolean{Value: b}: a fresh allocation, never one of the globals
NewBoolean(b) == <<BOOLEAN_OBJ, "new", b>>
\* &object.ReturnValue{Value: obj}
NewReturnValue(obj) == <<RETURN_VALUE_OBJ, obj>>
\* &object.Error{Message: msg}
newError(msg) == <<ERROR_OBJ, msg>>

\* obj.Type(); the caller checks for nil first (a nil receiver panics)
Type(obj) == obj[1]
\* the Value field of an Integer or a ReturnValue, the Message of an Error
Value(obj) == obj[2]
\* the Value field of a Boolean
BoolValue(obj) == obj[3]

\* faulty variant: an Error is never recognised
isError_Never(obj) == FALSE

isError(obj) == IF obj # Nil THEN Type(obj) = ERROR_OBJ ELSE FALSE

----------------------------------------------------------------------------
(* int64 arithmetic, at width IntBits *)

\* faulty variant: unbounded integers, no wrap-around
Int64_NoWrap(z) == z

\* the two's-complement value of z at the width of the Integer object
Int64(z) == ((z - MinInt) % Modulus) + MinInt

Abs(z) == IF z < 0 THEN 0 - z ELSE z

\* Go's integer quotient truncates toward zero (b # 0)
Quo(a, b) ==
    IF (a < 0) = (b < 0) THEN Abs(a) \div Abs(b) ELSE 0 - (Abs(a) \div Abs(b))

----------------------------------------------------------------------------
(* ast: the nodes the evaluator handles *)

IntegerLiteral(v) == <<"IntegerLiteral", v>>
Boolean(b) == <<"Boolean", b>>
Identifier(name) == <<"Identifier", name>>
StringLiteral(s) == <<"StringLiteral", s>>
PrefixExpression(op, right) == <<"PrefixExpression", op, right>>
InfixExpression(left, op, right) == <<"InfixExpression", left, op, right>>
IfExpression(cond, cons, alt) == <<"IfExpression", cond, cons, alt>>
BlockStatement(stmts) == <<"BlockStatement", stmts>>
LetStatement(name, value) == <<"LetStatement", name, value>>
ReturnStatement(value) == <<"ReturnStatement", value>>
ExpressionStatement(exp) == <<"ExpressionStatement", exp>>
WhileExpression(cond, body) == <<"WhileExpression", cond, body>>
\* a nil *ast.BlockStatement: an if without else
NoBlock == <<"nil">>

NodeType(node) == node[1]

----------------------------------------------------------------------------
(* token: a Token is <<Type, Literal>>; the Literal is the sequence of the  *)
(* characters of the lexeme, each character a one-letter string             *)

\* the byte 0, which the lexer reads at the end of the input
NUL == "NUL"

Letters ==
    {"a", "b", "c", "d", "e", "f", "g", "h", "i", "j", "k", "l", "m", "n", "o",
     "p", "q", "r", "s", "t", "u", "v", "w", "x", "y", "z", "_",
     "A", "B", "C", "D", "E", "F", "G", "H", "I", "J", "K", "L", "M", "N", "O",
     "P", "Q", "R", "S", "T", "U", "V", "W", "X", "Y", "Z"}
Digits == {"0", "1", "2", "3", "4", "5", "6", "7", "8", "9"}

Token(type, literal) == <<type, literal>>
TokenEOF == Token("EOF", <<>>)

\* the keyword table; every other identifier is an IDENT
LookupIdent(ident) ==
    CASE ident = <<"l", "e", "t">> -> "LET"
      [] ident = <<"f", "n">> -> "FUNCTION"
      [] ident = <<"t", "r", "u", "e">> -> "TRUE"
      [] ident = <<"f", "a", "l", "s", "e">> -> "FALSE"
      [] ident = <<"i", "f">> -> "IF"
      [] ident = <<"e", "l", "s", "e">> -> "ELSE"
      [] ident = <<"r", "e", "t", "u", "r", "n">> -> "RETURN"
      [] ident = <<"w", "h", "i", "l", "e">> -> "WHILE"
      [] ident = <<"f", "o", "r">> -> "FOR"
      [] ident = <<"i", "n">> -> "IN"
      [] ident = <<"m", "a", "p">> -> "MAP"
      [] OTHER -> "IDENT"

\* the string of a sequence of characters
RECURSIVE Concat(_)
Concat(chars) ==
    IF chars = <<>> THEN "" ELSE Head(chars) \o Concat(Tail(chars))

----------------------------------------------------------------------------
(* lexer: the Lexer is [input, position, readPosition, ch]; positions count *)
(* from 0 as in the source                                                  *)

\* faulty variant: the byte 0 once at the end of the input, a ; ever after
readChar_PastEnd(lx) ==
    [lx EXCEPT !.ch = IF lx.readPosition = Len(lx.input) THEN NUL
                      ELSE IF lx.readPosition > Len(lx.input) THEN ";"
                      ELSE lx.input[lx.readPosition + 1],
               !.position = lx.readPosition,
               !.readPosition = lx.readPosition + 1]

readChar(lx) ==
    [lx EXCEPT !.ch = IF lx.readPosition >= Len(lx.input) THEN NUL
                      ELSE lx.input[lx.readPosition + 1],
               !.position = lx.readPosition,
               !.readPosition = lx.readPosition + 1]

peekChar(lx) ==
    IF lx.readPosition >= Len(lx.input) THEN NUL
    ELSE lx.input[lx.readPosition + 1]

NewLexer(input) ==
    readChar([input |-> input, position |-> 0, readPosition |-> 0, ch |-> NUL])

isLetter(ch) == ch \in Letters
isNumber(ch) == ch \in Digits

\* the lexer after the run of characters of the class that starts at ch
RECURSIVE readWhile(_, _)
readWhile(lx, class) ==
    IF lx.ch \in class THEN readWhile(readChar(lx), class) ELSE lx

skipWhitespace(lx) == readWhile(lx, {" ", "\t", "\n", "\r"})

\* input[from:to]
Slice(input, from, to) == SubSeq(input, from + 1, to)

\* readIdentifier and readNumber: the lexeme and the lexer after it
readIdentifier(lx) ==
    LET after == readWhile(lx, Letters) IN
    [lit |-> Slice(lx.input, lx.position, after.position), lx |-> after]

readNumber(lx) ==
    LET after == readWhile(lx, Digits) IN
    [lit |-> Slice(lx.input, lx.position, after.position), lx |-> after]

\* the loop of readString: read on until a quote or the byte 0 is the current
\* character
RECURSIVE readStringLoop(_)
readStringLoop(lx) ==
    LET next == readChar(lx) IN
    IF next.ch = "\"" \/ next.ch = NUL THEN next ELSE readStringLoop(next)

readString(lx) ==
    LET after == readStringLoop(lx) IN
    [lit |-> Slice(lx.input, lx.position + 1, after.position), lx |-> after]

\* the punctuators of one character
Punctuators ==
    {";", ":", "(", ")", ",", "+", "{", "}", "-", "/", "*", "<", ">", "[", "]"}

\* NextToken: the token and the lexer after it
NextToken(lx0) ==
    LET lx == skipWhitespace(lx0) IN
    CASE lx.ch = "=" ->
            IF peekChar(lx) = "="
            THEN [tok |-> Token("==", <<"=", "=">>), lx |-> readChar(readChar(lx))]
            ELSE [tok |-> Token("=", <<"=">>), lx |-> readChar(lx)]
      [] lx.ch = "!" ->
            IF peekChar(lx) = "="
            THEN [tok |-> Token("!=", <<"!", "=">>), lx |-> readChar(readChar(lx))]
            ELSE [tok |-> Token("!", <<"!">>), lx |-> readChar(lx)]
      [] lx.ch \in Punctuators ->
            [tok |-> Token(lx.ch, <<lx.ch>>), lx |-> readChar(lx)]
      [] lx.ch = "\"" ->
            LET s == readString(lx) IN
            [tok |-> Token("STRING", s.lit), lx |-> readChar(s.lx)]
      [] lx.ch = NUL -> [tok |-> TokenEOF, lx |-> readChar(lx)]
      [] isLetter(lx.ch) ->
            LET id == readIdentifier(lx) IN
            [tok |-> Token(LookupIdent(id.lit), id.lit), lx |-> id.lx]
      [] isNumber(lx.ch) ->
            LET n == readNumber(lx) IN
            [tok |-> Token("INT", n.lit), lx |-> n.lx]
      [] OTHER -> [tok |-> Token("ILLEGAL", <<lx.ch>>), lx |-> readChar(lx)]

\* the tokens NextToken returns up to the first EOF, the EOF excluded
RECURSIVE LexFrom(_)
LexFrom(lx) ==
    LET r == NextToken(lx) IN
    IF r.tok[1] = "EOF" THEN <<>> ELSE <<r.tok>> \o LexFrom(r.lx)

Lex(input) == LexFrom(NewLexer(input))

----------------------------------------------------------------------------
(* parser: the Parser is [toks, pos, curToken, peekToken, errors]; its lexer *)
(* is the token source (toks, pos): the tokens NextToken is still to         *)
(* return, and after them EOF for ever.  A parse function yields the node it *)
(* returns and the Parser after it.  Every node carries the fields the       *)
(* evaluator reads first and its Token last.                                 *)
(* Function literals, hash literals, map and for are not parsed: the inputs  *)
(* have no fn, map, for token and no { where an expression starts.           *)

LOWEST == 1
EQUALS == 2
LESSGREATER == 3
SUM == 4
PRODUCT == 5
PREFIX == 6
CALL == 7
INDEX == 8

\* faulty variant: * and / at the level of + and -
precedences_ProductAsSum(type) ==
    CASE type \in {"==", "!="} -> EQUALS
      [] type \in {"<", ">"} -> LESSGREATER
      [] type \in {"+", "-", "/", "*"} -> SUM
      [] type = "(" -> CALL
      [] type = "[" -> INDEX
      [] OTHER -> LOWEST

precedences(type) ==
    CASE type \in {"==", "!="} -> EQUALS
      [] type \in {"<", ">"} -> LESSGREATER
      [] type \in {"+", "-"} -> SUM
      [] type \in {"/", "*"} -> PRODUCT
      [] type = "(" -> CALL
      [] type = "[" -> INDEX
      [] OTHER -> LOWEST

\* a nil ast.Expression, ast.Statement or slice
NilNode == <<"nil">>
\* a nil *ast.LetStatement held by an ast.Statement: not equal to nil
NilLetStatement == <<"nil *LetStatement">>

PR(node, p) == [node |-> node, p |-> p]

\* p.l.NextToken()
lexerNext(p) == IF p.pos < Len(p.toks) THEN p.toks[p.pos + 1] ELSE TokenEOF

\* curToken = peekToken; peekToken = l.NextToken()
advance(p) ==
    [p EXCEPT !.curToken = p.peekToken, !.peekToken = lexerNext(p),
              !.pos = p.pos + 1]

\* the loop of nextToken: advance again while the current token is a COMMENT
RECURSIVE skipComments(_)
skipComments(p) ==
    IF p.curToken[1] # "COMMENT" THEN p ELSE skipComments(advance(p))

nextToken_Once(p) == advance(p)

nextToken(p) == skipComments(advance(p))

\* New(l): both tokens unset, then two nextToken calls
New(toks) ==
    nextToken(nextToken([toks |-> toks, pos |-> 0, curToken |-> Token("", <<>>),
                         peekToken |-> Token("", <<>>), errors |-> <<>>,
                         panic |-> ""]))

curTokenIs(p, t) == p.curToken[1] = t
peekTokenIs(p, t) == p.peekToken[1] = t

\* nothing is recorded once the parser has panicked
addError(p, msg) ==
    IF p.panic # "" THEN p ELSE [p EXCEPT !.errors = Append(p.errors, msg)]

\* a Go panic in a parse function: nothing recovers it, every caller is
\* unwound.  The panicked Parser holds the message and reads EOF from then
\* on, which ends the loops of its callers.
TypeAssertion == "interface conversion: ast.Expression is *ast.ReassignmentExpression, not *ast.Identifier"
Crash(p, msg) ==
    [p EXCEPT !.panic = msg, !.curToken = TokenEOF, !.peekToken = TokenEOF,
              !.pos = Len(p.toks)]

peekError(p, t) ==
    addError(p, "expected next token to be " \o t \o ", got " \o p.peekToken[1]
                \o " instead")

\* expectPeek: ok tells whether the peek token was t
expectPeek(p, t) ==
    IF peekTokenIs(p, t) THEN [ok |-> TRUE, p |-> nextToken(p)]
    ELSE [ok |-> FALSE, p |-> peekError(p, t)]

peekPrecedence(p) == precedences(p.peekToken[1])
curPrecedence(p) == precedences(p.curToken[1])

\* the largest value of the parser's int64
MaxLit == 2 ^ (LitBits - 1) - 1

\* the value of a run of digits in the given base, most significant first;
\* -1 when a digit is not one of the base; the sum stops growing past limit
DigitValue(ch) ==
    CASE ch = "0" -> 0 [] ch = "1" -> 1 [] ch = "2" -> 2 [] ch = "3" -> 3
      [] ch = "4" -> 4 [] ch = "5" -> 5 [] ch = "6" -> 6 [] ch = "7" -> 7
      [] ch = "8" -> 8 [] ch = "9" -> 9 [] OTHER -> 0 - 1

RECURSIVE ParseDigits(_, _, _)
ParseDigits(digits, base, acc) ==
    IF digits = <<>> THEN acc
    ELSE LET d == DigitValue(Head(digits)) IN
         IF d < 0 \/ d >= base THEN 0 - 1
         ELSE ParseDigits(Tail(digits), base,
                          IF acc > MaxLit THEN acc ELSE acc * base + d)

\* strconv.ParseInt(lit, 0, 64) on a run of digits: a leading 0 makes the
\* rest octal; a syntax error gives 0, a value out of range the largest one
ParseInt(lit) ==
    LET octal == Len(lit) > 1 /\ lit[1] = "0"
        v == IF octal THEN ParseDigits(Tail(lit), 8, 0)
             ELSE ParseDigits(lit, 10, 0)
    IN  IF lit = <<>> \/ v < 0 THEN [val |-> 0, err |-> TRUE]
        ELSE IF v > MaxLit THEN [val |-> MaxLit, err |-> TRUE]
        ELSE [val |-> v, err |-> FALSE]

RECURSIVE parseExpression(_, _)
RECURSIVE parseExpressionLoop(_, _, _)
RECURSIVE parseStatement(_)
RECURSIVE parseBlockLoop(_, _)
RECURSIVE parseExpressionListLoop(_, _)

\* the one element of a set: The({e : x \in {v}}) is e with x standing for v,
\* the way a Go function holds a result in a local variable
The(S) == CHOOSE x \in S : TRUE

parseIdentifier(p) ==
    IF ~peekTokenIs(p, "=")
    THEN PR(<<"Identifier", Concat(p.curToken[2]), p.curToken>>, p)
    ELSE The({The({PR(<<"ReassignmentExpression",
                        <<"Identifier", Concat(p.curToken[2]), p.curToken>>,
                        right.node, p1.curToken>>, right.p) :
                   right \in {parseExpression(nextToken(p1), LOWEST)}}) :
              p1 \in {nextToken(p)}})

parseInteger(p) ==
    The({PR(<<"IntegerLiteral", n.val, p.curToken>>,
            IF n.err
            THEN addError(p, "cannot parse " \o Concat(p.curToken[2])
                             \o " as integer")
            ELSE p) :
         n \in {ParseInt(p.curToken[2])}})

parseString(p) ==
    PR(<<"StringLiteral", Concat(p.curToken[2]), p.curToken>>, p)

parseBoolean(p) == PR(<<"Boolean", curTokenIs(p, "TRUE"), p.curToken>>, p)

parsePrefixExpression(p) ==
    The({PR(<<"PrefixExpression", Concat(p.curToken[2]), right.node, p.curToken>>,
            right.p) :
         right \in {parseExpression(nextToken(p), PREFIX)}})

\* faulty variant: the right operand is parsed one level lower
parseInfixExpression_RightAssoc(p, left) ==
    The({PR(<<"InfixExpression", left, Concat(p.curToken[2]), right.node,
              p.curToken>>, right.p) :
         right \in {parseExpression(nextToken(p), curPrecedence(p) - 1)}})

parseInfixExpression(p, left) ==
    The({PR(<<"InfixExpression", left, Concat(p.curToken[2]), right.node,
              p.curToken>>, right.p) :
         right \in {parseExpression(nextToken(p), curPrecedence(p))}})

parseGroupedExpression(p) ==
    The({The({IF ~close.ok THEN PR(NilNode, close.p) ELSE PR(exp.node, close.p) :
              close \in {expectPeek(exp.p, ")")}}) :
         exp \in {parseExpression(nextToken(p), LOWEST)}})

\* parseBlockStatement: the loop, from the token after the {
parseBlockLoop(p, stmts) ==
    IF curTokenIs(p, "}") \/ curTokenIs(p, "EOF") THEN PR(stmts, p)
    ELSE The({parseBlockLoop(nextToken(s.p),
                             IF s.node # NilNode THEN Append(stmts, s.node)
                             ELSE stmts) :
              s \in {parseStatement(p)}})

parseBlockStatement(p) ==
    The({PR(<<"BlockStatement", body.node, p.curToken>>, body.p) :
         body \in {parseBlockLoop(nextToken(p), <<>>)}})

\* parseIfExpression after the consequence cons: the else, if there is one
parseElse(p, cond, cons) ==
    IF ~peekTokenIs(cons.p, "ELSE")
    THEN PR(<<"IfExpression", cond.node, cons.node, NilNode, p.curToken>>, cons.p)
    ELSE The({IF ~brace.ok THEN PR(NilNode, brace.p)
              ELSE The({PR(<<"IfExpression", cond.node, cons.node, alt.node,
                             p.curToken>>, alt.p) :
                        alt \in {parseBlockStatement(brace.p)}}) :
              brace \in {expectPeek(nextToken(cons.p), "{")}})

\* ( condition ) { of an if or a while: ok tells whether all of it was there
parseCondition(p) ==
    The({IF ~open.ok THEN [ok |-> FALSE, node |-> NilNode, p |-> open.p]
         ELSE The({The({IF ~close.ok
                        THEN [ok |-> FALSE, node |-> NilNode, p |-> close.p]
                        ELSE The({[ok |-> brace.ok, node |-> cond.node,
                                   p |-> brace.p] :
                                  brace \in {expectPeek(close.p, "{")}}) :
                        close \in {expectPeek(cond.p, ")")}}) :
                   cond \in {parseExpression(nextToken(open.p), LOWEST)}}) :
         open \in {expectPeek(p, "(")}})

parseIfExpression(p) ==
    The({IF ~cond.ok THEN PR(NilNode, cond.p)
         ELSE The({parseElse(p, cond, cons) :
                   cons \in {parseBlockStatement(cond.p)}}) :
         cond \in {parseCondition(p)}})

parseWhileExpression(p) ==
    The({IF ~cond.ok THEN PR(NilNode, cond.p)
         ELSE The({PR(<<"WhileExpression", cond.node, body.node, p.curToken>>,
                      body.p) :
                   body \in {parseBlockStatement(cond.p)}}) :
         cond \in {parseCondition(p)}})

\* the loop of parseExpressionList: an expression after each comma
parseExpressionListLoop(p, args) ==
    IF ~peekTokenIs(p, ",") THEN PR(args, p)
    ELSE The({parseExpressionListLoop(exp.p, Append(args, exp.node)) :
              exp \in {parseExpression(nextToken(nextToken(p)), LOWEST)}})

parseExpressionList(p, end) ==
    IF peekTokenIs(p, end) THEN PR(<<>>, nextToken(p))
    ELSE The({The({The({IF ~close.ok THEN PR(NilNode, close.p)
                        ELSE PR(rest.node, close.p) :
                        close \in {expectPeek(rest.p, end)}}) :
                   rest \in {parseExpressionListLoop(first.p, <<first.node>>)}}) :
              first \in {parseExpression(nextToken(p), LOWEST)}})

parseCallExpression(p, function) ==
    The({PR(<<"CallExpression", function, args.node, p.curToken>>, args.p) :
         args \in {parseExpressionList(p, ")")}})

parseArrayLiteral(p) ==
    The({PR(<<"ArrayLiteral", elements.node, p.curToken>>, elements.p) :
         elements \in {parseExpressionList(p, "]")}})

parseIndexExpression(p, left) ==
    The({The({IF ~close.ok THEN PR(NilNode, close.p)
              ELSE PR(<<"IndexExpression", left, index.node, p.curToken>>,
                      close.p) :
              close \in {expectPeek(index.p, "]")}}) :
         index \in {parseExpression(nextToken(p), LOWEST)}})

\* parseForLoop: the iterator must be a plain identifier, or the type
\* assertion on what parseIdentifier returns panics
parseForLoop(p) ==
    The({IF ~ident.ok THEN PR(NilNode, ident.p)
         ELSE The({IF iter.node[1] # "Identifier"
                   THEN PR(NilNode, Crash(iter.p, TypeAssertion))
                   ELSE The({IF ~kw.ok THEN PR(NilNode, kw.p)
                             ELSE The({The({PR(<<"ForLoop", iter.node, src.elements,
                                                 src.ident, body.node, p.curToken>>,
                                               body.p) :
                                            body \in {parseBlockStatement(nextToken(src.p))}}) :
                                       src \in {IF curTokenIs(nextToken(kw.p), "[")
                                                THEN The({[elements |-> list.node,
                                                           ident |-> NilNode,
                                                           p |-> list.p] :
                                                          list \in {parseExpressionList(nextToken(kw.p), "]")}})
                                                ELSE The({[elements |-> NilNode,
                                                           ident |-> name.node,
                                                           p |-> name.p] :
                                                          name \in {parseIdentifier(nextToken(kw.p))}})}}) :
                             kw \in {expectPeek(iter.p, "IN")}}) :
                   iter \in {parseIdentifier(ident.p)}}) :
         ident \in {expectPeek(p, "IDENT")}})

\* p.prefixParseFns[type]() for the registered types
PrefixTypes == {"IDENT", "INT", "STRING", "TRUE", "FALSE", "!", "-", "(", "IF",
                "[", "WHILE", "FOR"}

prefixParseFn(p) ==
    CASE p.curToken[1] = "IDENT" -> parseIdentifier(p)
      [] p.curToken[1] = "INT" -> parseInteger(p)
      [] p.curToken[1] = "STRING" -> parseString(p)
      [] p.curToken[1] \in {"TRUE", "FALSE"} -> parseBoolean(p)
      [] p.curToken[1] \in {"!", "-"} -> parsePrefixExpression(p)
      [] p.curToken[1] = "(" -> parseGroupedExpression(p)
      [] p.curToken[1] = "IF" -> parseIfExpression(p)
      [] p.curToken[1] = "[" -> parseArrayLiteral(p)
      [] p.curToken[1] = "WHILE" -> parseWhileExpression(p)
      [] p.curToken[1] = "FOR" -> parseForLoop(p)

\* p.infixParseFns[type](left) for the registered types
InfixTypes == {"+", "-", "/", "*", "==", "!=", "<", ">", "(", "["}

infixParseFn(p, left) ==
    CASE p.curToken[1] = "(" -> parseCallExpression(p, left)
      [] p.curToken[1] = "[" -> parseIndexExpression(p, left)
      [] OTHER -> parseInfixExpression(p, left)

parseExpressionLoop(p, precedence, leftExp) ==
    IF ~peekTokenIs(p, ";") /\ precedence < peekPrecedence(p)
    THEN IF p.peekToken[1] \notin InfixTypes THEN PR(leftExp, p)
         ELSE The({parseExpressionLoop(r.p, precedence, r.node) :
                   r \in {infixParseFn(nextToken(p), leftExp)}})
    ELSE PR(leftExp, p)

parseExpression(p, precedence) ==
    IF p.curToken[1] \notin PrefixTypes
    THEN PR(NilNode, addError(p, "no prefix parse function found for "
                                 \o p.curToken[1]))
    ELSE The({parseExpressionLoop(left.p, precedence, left.node) :
              left \in {prefixParseFn(p)}})

\* parseLetStatement after the name: the =, the value and the ;
parseLetValue(p, ident) ==
    The({IF ~assign.ok THEN PR(NilLetStatement, assign.p)
         ELSE The({PR(<<"LetStatement", Concat(ident.curToken[2]), value.node,
                        <<"Identifier", Concat(ident.curToken[2]), ident.curToken>>,
                        p.curToken>>,
                      IF peekTokenIs(value.p, ";") THEN nextToken(value.p)
                      ELSE value.p) :
                   value \in {parseExpression(nextToken(assign.p), LOWEST)}}) :
         assign \in {expectPeek(ident, "=")}})

parseLetStatement(p) ==
    The({IF ~ident.ok THEN PR(NilLetStatement, ident.p)
         ELSE parseLetValue(p, ident.p) :
         ident \in {expectPeek(p, "IDENT")}})

parseReturnStatement(p) ==
    The({PR(<<"ReturnStatement", value.node, p.curToken>>,
            IF curTokenIs(value.p, ";") THEN nextToken(value.p) ELSE value.p) :
         value \in {parseExpression(nextToken(p), LOWEST)}})

parseExpressionStatement(p) ==
    The({PR(<<"ExpressionStatement", exp.node, p.curToken>>,
            IF peekTokenIs(exp.p, ";") THEN nextToken(exp.p) ELSE exp.p) :
         exp \in {parseExpression(p, LOWEST)}})

parseStatement(p) ==
    CASE p.curToken[1] = "LET" -> parseLetStatement(p)
      [] p.curToken[1] = "RETURN" -> parseReturnStatement(p)
      [] OTHER -> parseExpressionStatement(p)

\* one turn of ParseProgram's loop: the statements and the Parser after it
parseProgramTurn(p, stmts) ==
    The({PR(IF s.node # NilNode THEN Append(stmts, s.node) ELSE stmts,
            nextToken(s.p)) :
         s \in {parseStatement(p)}})

\* ParseProgram from the Parser p on, stmts being the statements so far
RECURSIVE parseProgramLoop(_, _)
parseProgramLoop(p, stmts) ==
    IF curTokenIs(p, "EOF") THEN PR(stmts, p)
    ELSE LET t == parseProgramTurn(p, stmts) IN parseProgramLoop(t.p, t.node)

\* New(l).ParseProgram() on the tokens toks
ParseProgram(toks) == parseProgramLoop(New(toks), <<>>)

----------------------------------------------------------------------------
(* ast: String(), the text of a node as a sequence of characters            *)

\* the characters a nil receiver leaves: String() on it is a runtime panic
PanicChars == <<"PANIC">>

\* strings.Join(parts, ", ")
RECURSIVE Join(_)
Join(parts) ==
    IF parts = <<>> THEN <<>>
    ELSE IF Len(parts) = 1 THEN parts[1]
    ELSE parts[1] \o <<",", " ">> \o Join(Tail(parts))

\* the text of the words, one space between two of them
RECURSIVE Spaced(_)
Spaced(words) ==
    IF words = <<>> THEN <<>>
    ELSE IF Len(words) = 1 THEN words[1]
    ELSE words[1] \o <<" ">> \o Spaced(Tail(words))

RECURSIVE String(_)

\* the concatenation of the String() of each node
RECURSIVE StringAll(_)
StringAll(nodes) ==
    IF nodes = <<>> THEN <<>> ELSE String(Head(nodes)) \o StringAll(Tail(nodes))

\* the elements of a slice, none when it is nil
Elements(nodes) == IF nodes = NilNode THEN <<>> ELSE nodes

\* the TokenLiteral() of a node: the Literal of its Token, its last field
TokenLiteral(node) == node[Len(node)][2]

String(node) ==
    CASE NodeType(node) \in {"Identifier", "IntegerLiteral", "Boolean",
                             "StringLiteral"} -> TokenLiteral(node)
      [] NodeType(node) = "PrefixExpression" ->
            <<"(">> \o TokenLiteral(node) \o String(node[3]) \o <<")">>
      [] NodeType(node) = "InfixExpression" ->
            <<"(">> \o String(node[2]) \o <<" ">> \o TokenLiteral(node)
                    \o <<" ">> \o String(node[4]) \o <<")">>
      [] NodeType(node) = "ReassignmentExpression" ->
            String(node[2]) \o <<" ", "=", " ">> \o String(node[3])
      [] NodeType(node) = "IfExpression" ->
            <<"i", "f">> \o String(node[2]) \o <<" ">> \o String(node[3])
               \o (IF node[4] # NilNode
                   THEN <<"e", "l", "s", "e", " ">> \o String(node[4])
                   ELSE <<>>)
      [] NodeType(node) = "WhileExpression" ->
            <<"w", "h", "i", "l", "e", " ">> \o String(node[2]) \o <<" ", "{", " ">>
               \o String(node[3]) \o <<" ", "}">>
      [] NodeType(node) = "ForLoop" ->
            <<"f", "o", "r", " ">> \o String(node[2]) \o <<" ", "i", "n", " ", "[">>
               \o Spaced([i \in 1..Len(Elements(node[3])) |-> String(node[3][i])])
               \o <<"]", " ", "{", " ">> \o String(node[5]) \o <<" ", "}">>
      [] NodeType(node) = "BlockStatement" -> StringAll(node[2])
      [] NodeType(node) = "CallExpression" ->
            String(node[2]) \o <<"(">>
               \o Join([i \in 1..Len(Elements(node[3])) |-> String(node[3][i])]) \o <<")">>
      [] NodeType(node) = "ArrayLiteral" ->
            <<"[">> \o Join([i \in 1..Len(Elements(node[2])) |-> String(node[2][i])])
                    \o <<"]">>
      [] NodeType(node) = "IndexExpression" ->
            <<"(">> \o String(node[2]) \o <<"[">> \o String(node[3])
                    \o <<"]", ")">>
      [] NodeType(node) = "LetStatement" ->
            TokenLiteral(node) \o <<" ">> \o String(node[4]) \o <<" ", "=", " ">>
               \o (IF node[3] # NilNode THEN String(node[3]) ELSE <<>>)
               \o <<";">>
      [] NodeType(node) = "ReturnStatement" ->
            TokenLiteral(node) \o <<" ">>
               \o (IF node[2] # NilNode THEN String(node[2]) ELSE <<>>)
               \o <<";">>
      [] NodeType(node) = "ExpressionStatement" ->
            IF node[2] # NilNode THEN String(node[2]) ELSE <<>>
      [] OTHER -> PanicChars

\* Program.String()
ProgramString(stmts) == StringAll(stmts)

----------------------------------------------------------------------------
(* object.Environment: a chain of stores, innermost first *)

NewEnvironment == << <<>> >>

RECURSIVE Has(_, _)
Has(e, name) ==
    IF name \in DOMAIN e[1] THEN TRUE
    ELSE IF Len(e) > 1 THEN Has(Tail(e), name) ELSE FALSE

\* faulty variant: the outer environments are asked first
RECURSIVE Get_OuterFirst(_, _)
Get_OuterFirst(e, name) ==
    IF Len(e) > 1 /\ (\E k \in 2..Len(e) : name \in DOMAIN e[k])
    THEN Get_OuterFirst(Tail(e), name)
    ELSE IF name \in DOMAIN e[1] THEN e[1][name] ELSE <<"nil">>

RECURSIVE Get(_, _)
Get(e, name) ==
    IF name \in DOMAIN e[1] THEN e[1][name]
    ELSE IF Len(e) > 1 THEN Get(Tail(e), name) ELSE Nil

\* faulty variant: an existing binding is kept
Set_KeepExisting(e, name, val) ==
    IF name \in DOMAIN e[1] THEN e
    ELSE [e EXCEPT ![1] = [n \in DOMAIN e[1] \cup {name} |->
                              IF n = name THEN val ELSE e[1][n]]]

Set(e, name, val) ==
    [e EXCEPT ![1] = [n \in DOMAIN e[1] \cup {name} |->
                         IF n = name THEN val ELSE e[1][n]]]

----------------------------------------------------------------------------
(* object.Environment as allocated: heap[i] is the i-th Environment, its    *)
(* outer field the index of another one, or NilEnv                          *)

NilEnv == 0

\* &Environment{store: s}, then env.outer = outer
EnvObject(store, outer) == [store |-> store, outer |-> outer]

\* the environment i with the environments its outer pointers lead to
RECURSIVE Chain(_, _)
Chain(h, i) ==
    <<h[i].store>> \o (IF h[i].outer = NilEnv THEN <<>> ELSE Chain(h, h[i].outer))

\* faulty variant: the write goes to the nearest environment that binds the
\* name, as an assignment would
RECURSIVE HeapSet_WhereBound(_, _, _, _)
HeapSet_WhereBound(h, i, name, val) ==
    IF name \in DOMAIN h[i].store \/ h[i].outer = NilEnv
    THEN [h EXCEPT ![i].store = [n \in DOMAIN h[i].store \cup {name} |->
                                    IF n = name THEN val ELSE h[i].store[n]]]
    ELSE HeapSet_WhereBound(h, h[i].outer, name, val)

\* e.Set(name, val) on the environment i: e.store[name] = val
HeapSet(h, i, name, val) ==
    [h EXCEPT ![i].store = Set(<<h[i].store>>, name, val)[1]]

----------------------------------------------------------------------------
(* The evaluator.  An evaluation yields an object (or nil), the environment *)
(* after it, and the trace of Eval calls so far; a Go runtime panic aborts  *)
(* the evaluation and is carried up unchanged.                              *)

Ret(obj, e, l) == [obj |-> obj, env |-> e, log |-> l, panic |-> ""]
Panic(msg, e, l) == [obj |-> Nil, env |-> e, log |-> l, panic |-> msg]

\* a helper that panics instead of returning an object yields this
PanicObj(msg) == <<"panic", msg>>
NilDeref == "invalid memory address or nil pointer dereference"
DivideByZero == "integer divide by zero"

Lift(o, e, l) == IF o[1] = "panic" THEN Panic(o[2], e, l) ELSE Ret(o, e, l)

\* the trace: one event when Eval is entered, one when it returns
Enter(node) == <<"enter", node>>
Exit(node, obj) == <<"exit", node, obj>>

evalBangOperatorExp(exp) ==
    CASE exp = ObjTRUE -> ObjFALSE
      [] exp = ObjFALSE -> ObjTRUE
      [] exp = NULL -> ObjTRUE
      [] OTHER -> ObjFALSE

evalMinusOperatorExp(exp) ==
    IF exp = Nil THEN PanicObj(NilDeref)
    ELSE IF Type(exp) # INTEGER_OBJ
         THEN newError("unknown operator: -" \o Type(exp))
         ELSE NewInteger(Int64(0 - Value(exp)))

evalPrefixExpression(op, right) ==
    CASE op = "!" -> evalBangOperatorExp(right)
      [] op = "-" -> evalMinusOperatorExp(right)
      [] OTHER -> IF right = Nil THEN PanicObj(NilDeref)
                  ELSE newError("unknown operator: " \o op \o Type(right))

evalIntegerInfix(op, l, r) ==
    CASE op = "+" -> NewInteger(Int64(l + r))
      [] op = "-" -> NewInteger(Int64(l - r))
      [] op = "*" -> NewInteger(Int64(l * r))
      [] op = "/" -> IF r = 0 THEN PanicObj(DivideByZero)
                     ELSE NewInteger(Int64(Quo(l, r)))
      [] op = "<" -> NewBoolean(l < r)
      [] op = ">" -> NewBoolean(l > r)
      [] op = "==" -> NewBoolean(l = r)
      [] op = "!=" -> NewBoolean(l # r)
      [] OTHER -> newError("unknown operator: " \o INTEGER_OBJ \o " " \o op
                           \o " " \o INTEGER_OBJ)

evalBooleanInfix(op, l, r) ==
    CASE op = "==" -> NewBoolean(l = r)
      [] op = "!=" -> NewBoolean(l # r)
      [] OTHER -> newError("unknown operator: " \o BOOLEAN_OBJ \o " " \o op
                           \o " " \o BOOLEAN_OBJ)

\* faulty variant: the two kinds are swapped in the message
typeMismatch_Swapped(op, left, right) ==
    newError("type mismatch: " \o Type(right) \o " " \o op \o " " \o Type(left))

typeMismatch(op, left, right) ==
    newError("type mismatch: " \o Type(left) \o " " \o op \o " " \o Type(right))

evalInfixExpression(op, left, right) ==
    IF left = Nil \/ right = Nil THEN PanicObj(NilDeref)
    ELSE IF Type(left) # Type(right) THEN typeMismatch(op, left, right)
    ELSE IF Type(left) = BOOLEAN_OBJ
         THEN evalBooleanInfix(op, BoolValue(left), BoolValue(right))
    ELSE IF Type(left) = INTEGER_OBJ
         THEN evalIntegerInfix(op, Value(left), Value(right))
    ELSE newError("unsupported type: " \o Type(left))

evalIdentifier(node, e) ==
    IF ~Has(e, node[2]) THEN newError("identifier not found: " \o node[2])
    ELSE Get(e, node[2])

\* faulty variant: a block stops on an Error only
blockReturns_ErrorOnly(res) == res # Nil /\ Type(res) = ERROR_OBJ

\* the loop condition of evalBlockStatement: stop on a ReturnValue or an Error
blockReturns(res) ==
    res # Nil /\ (Type(res) = RETURN_VALUE_OBJ \/ Type(res) = ERROR_OBJ)

RECURSIVE Eval(_, _, _)
RECURSIVE evalBlockStatement(_, _, _, _, _)
RECURSIVE evalWhileExpression(_, _, _, _)

\* faulty variant: the Integer 0 is falsy
ifBranch_ZeroFalsy(node, cond) ==
    IF Type(cond) = BOOLEAN_OBJ /\ BoolValue(cond) /\ node[3] # NoBlock
        THEN "consequence"
    ELSE IF Type(cond) = BOOLEAN_OBJ /\ ~BoolValue(cond) /\ node[4] # NoBlock
        THEN "alternative"
    ELSE IF Type(cond) = INTEGER_OBJ /\ Value(cond) # 0 /\ node[3] # NoBlock
        THEN "consequence"
    ELSE IF Type(cond) = INTEGER_OBJ /\ Value(cond) = 0 /\ node[4] # NoBlock
        THEN "alternative"
    ELSE "none"

\* which block an if-expression evaluates for the condition cond
\* ("none": it returns NULL)
ifBranch(node, cond) ==
    IF Type(cond) = BOOLEAN_OBJ /\ BoolValue(cond) /\ node[3] # NoBlock
        THEN "consequence"
    ELSE IF Type(cond) = BOOLEAN_OBJ /\ ~BoolValue(cond) /\ node[4] # NoBlock
        THEN "alternative"
    ELSE IF Type(cond) = INTEGER_OBJ /\ node[3] # NoBlock
        THEN "consequence"
    ELSE "none"

evalIfExpression(node, e, l) ==
    LET c == Eval(node[2], e, l) IN
    IF c.panic # "" THEN c
    ELSE IF isError(c.obj) THEN c
    ELSE IF c.obj = Nil THEN Panic(NilDeref, c.env, c.log)
    ELSE CASE ifBranch(node, c.obj) = "consequence" ->
                  Eval(node[3], c.env, c.log)
           [] ifBranch(node, c.obj) = "alternative" ->
                  Eval(node[4], c.env, c.log)
           [] OTHER -> Ret(NULL, c.env, c.log)

\* faulty variant: the statements of a block are evaluated in a new
\* environment enclosed in e, which is dropped when the block ends
RECURSIVE blockLoop_Enclosed(_, _, _, _, _)
blockLoop_Enclosed(stmts, i, res, e, l) ==
    IF i > Len(stmts) THEN Ret(res, e, l)
    ELSE LET r == Eval(stmts[i], e, l) IN
         IF r.panic # "" THEN r
         ELSE IF blockReturns(r.obj) THEN r
         ELSE blockLoop_Enclosed(stmts, i + 1, r.obj, r.env, r.log)

evalBlockStatement_Enclosed(stmts, i, res, e, l) ==
    LET r == blockLoop_Enclosed(stmts, i, res, << <<>> >> \o e, l) IN
    [r EXCEPT !.env = Tail(r.env)]

\* the statements of the block from the i-th on; res is the loop's result
evalBlockStatement(stmts, i, res, e, l) ==
    IF i > Len(stmts) THEN Ret(res, e, l)
    ELSE LET r == Eval(stmts[i], e, l) IN
         IF r.panic # "" THEN r
         ELSE IF blockReturns(r.obj) THEN r
         ELSE evalBlockStatement(stmts, i + 1, r.obj, r.env, r.log)

\* the truthiness a while loop tests: Boolean true, or any Integer
isTruthy(cond) ==
    \/ Type(cond) = BOOLEAN_OBJ /\ BoolValue(cond)
    \/ Type(cond) = INTEGER_OBJ

\* the while loop: the condition is evaluated again before each turn; an
\* Error or a ReturnValue of the body ends the loop and is handed up as it
\* is; res is the value of the last turn, NULL when there was none
evalWhileExpression(node, res, e, l) ==
    LET c == Eval(node[2], e, l) IN
    IF c.panic # "" THEN c
    ELSE IF isError(c.obj) THEN c
    ELSE IF c.obj = Nil THEN Panic(NilDeref, c.env, c.log)
    ELSE IF ~isTruthy(c.obj) THEN Ret(res, c.env, c.log)
    ELSE LET b == Eval(node[3], c.env, c.log) IN
         IF b.panic # "" THEN b
         ELSE IF blockReturns(b.obj) THEN b
         ELSE evalWhileExpression(node, b.obj, b.env, b.log)

\* faulty variant: the left operand of an infix expression first
EvalNode_LeftFirst(node, e, l) ==
    CASE NodeType(node) = "LetStatement" ->
            LET v == Eval(node[3], e, l) IN
            IF v.panic # "" THEN v
            ELSE IF isError(v.obj) THEN v
            ELSE Ret(NULL, Set(v.env, node[2], v.obj), v.log)
      [] NodeType(node) = "Identifier" -> Ret(evalIdentifier(node, e), e, l)
      [] NodeType(node) = "ExpressionStatement" -> Eval(node[2], e, l)
      [] NodeType(node) = "IntegerLiteral" -> Ret(NewInteger(node[2]), e, l)
      [] NodeType(node) = "Boolean" ->
            Ret(IF node[2] THEN ObjTRUE ELSE ObjFALSE, e, l)
      [] NodeType(node) = "PrefixExpression" ->
            LET right == Eval(node[3], e, l) IN
            IF right.panic # "" THEN right
            ELSE IF isError(right.obj) THEN right
            ELSE Lift(evalPrefixExpression(node[2], right.obj),
                      right.env, right.log)
      [] NodeType(node) = "InfixExpression" ->
            LET left == Eval(node[2], e, l) IN
            IF left.panic # "" THEN left
            ELSE IF isError(left.obj) THEN left
            ELSE LET right == Eval(node[4], left.env, left.log) IN
                 IF right.panic # "" THEN right
                 ELSE IF isError(right.obj) THEN right
                 ELSE Lift(evalInfixExpression(node[3], left.obj, right.obj),
                           right.env, right.log)
      [] NodeType(node) = "BlockStatement" ->
            evalBlockStatement(node[2], 1, Nil, e, l)
      [] NodeType(node) = "IfExpression" -> evalIfExpression(node, e, l)
      [] NodeType(node) = "ReturnStatement" ->
            LET v == Eval(node[2], e, l) IN
            IF v.panic # "" THEN v
            ELSE IF isError(v.obj) THEN v
            ELSE Ret(NewReturnValue(v.obj), v.env, v.log)
      [] NodeType(node) = "WhileExpression" ->
            evalWhileExpression(node, NULL, e, l)
      [] node = NilLetStatement -> Panic(NilDeref, e, l)
      [] OTHER -> Ret(NULL, e, l)

EvalNode(node, e, l) ==
    CASE NodeType(node) = "LetStatement" ->
            LET v == Eval(node[3], e, l) IN
            IF v.panic # "" THEN v
            ELSE IF isError(v.obj) THEN v
            ELSE Ret(NULL, Set(v.env, node[2], v.obj), v.log)
      [] NodeType(node) = "Identifier" -> Ret(evalIdentifier(node, e), e, l)
      [] NodeType(node) = "ExpressionStatement" -> Eval(node[2], e, l)
      [] NodeType(node) = "IntegerLiteral" -> Ret(NewInteger(node[2]), e, l)
      [] NodeType(node) = "Boolean" ->
            Ret(IF node[2] THEN ObjTRUE ELSE ObjFALSE, e, l)
      [] NodeType(node) = "PrefixExpression" ->
            LET right == Eval(node[3], e, l) IN
            IF right.panic # "" THEN right
            ELSE IF isError(right.obj) THEN right
            ELSE Lift(evalPrefixExpression(node[2], right.obj),
                      right.env, right.log)
      [] NodeType(node) = "InfixExpression" ->
            LET right == Eval(node[4], e, l) IN
            IF right.panic # "" THEN right
            ELSE IF isError(right.obj) THEN right
            ELSE LET left == Eval(node[2], right.env, right.log) IN
                 IF left.panic # "" THEN left
                 ELSE IF isError(left.obj) THEN left
                 ELSE Lift(evalInfixExpression(node[3], left.obj, right.obj),
                           left.env, left.log)
      [] NodeType(node) = "BlockStatement" ->
            evalBlockStatement(node[2], 1, Nil, e, l)
      [] NodeType(node) = "IfExpression" -> evalIfExpression(node, e, l)
      [] NodeType(node) = "ReturnStatement" ->
            LET v == Eval(node[2], e, l) IN
            IF v.panic # "" THEN v
            ELSE IF isError(v.obj) THEN v
            ELSE Ret(NewReturnValue(v.obj), v.env, v.log)
      [] NodeType(node) = "WhileExpression" ->
            evalWhileExpression(node, NULL, e, l)
      [] node = NilLetStatement -> Panic(NilDeref, e, l)
      [] OTHER -> Ret(NULL, e, l)

\* faulty variant: an identifier that is not found is bound to NULL
Eval_BindsMissing(node, e, l) ==
    LET r == EvalNode(node, e, Append(l, Enter(node))) IN
    IF r.panic # "" THEN r
    ELSE IF NodeType(node) = "Identifier" /\ r.obj[1] = ERROR_OBJ
    THEN [r EXCEPT !.env = Set(r.env, node[2], NULL),
                   !.log = Append(r.log, Exit(node, r.obj))]
    ELSE [r EXCEPT !.log = Append(r.log, Exit(node, r.obj))]

Eval(node, e, l) ==
    LET r == EvalNode(node, e, Append(l, Enter(node))) IN
    IF r.panic # "" THEN r
    ELSE [r EXCEPT !.log = Append(r.log, Exit(node, r.obj))]

----------------------------------------------------------------------------
(* The programs evaluated: ASTs the parser builds without errors *)

InfixOps == {"+", "-", "*", "/", "<", ">", "==", "!="}
PrefixOps == {"!", "-"}

\* the expression whose value is the integer v: a literal is a run of digits,
\* a negative value needs the prefix minus, and MinInt needs a subtraction
IntOperand(v) ==
    IF v >= 0 THEN IntegerLiteral(v)
    ELSE IF v > MinInt THEN PrefixExpression("-", IntegerLiteral(0 - v))
    ELSE InfixExpression(PrefixExpression("-", IntegerLiteral(MaxInt)), "-",
                         IntegerLiteral(1))

IntOperands == {IntOperand(v) : v \in MinInt..MaxInt}

Block(stmts) == BlockStatement(stmts)
If(cond, stmts) == IfExpression(cond, Block(stmts), NoBlock)
ES(exp) == ExpressionStatement(exp)

\* x is never bound by these programs unless a let binds it first
UnboundX == Identifier("x")
\* if (true) { return 1 }: evaluates to a ReturnValue
ReturnsInIf == If(Boolean(TRUE), <<ReturnStatement(IntegerLiteral(1))>>)
\* if (false) { 1 }: evaluates to NULL
NullIf == If(Boolean(FALSE), <<ES(IntegerLiteral(1))>>)
\* if (true) { }: the empty block evaluates to nil
EmptyIf == If(Boolean(TRUE), <<>>)
Less == InfixExpression(IntegerLiteral(1), "<", IntegerLiteral(2))
Greater == InfixExpression(IntegerLiteral(1), ">", IntegerLiteral(2))

Operands ==
    IntOperands \cup
    { Boolean(TRUE), Boolean(FALSE), UnboundX, StringLiteral("s"),
      Less, Greater, ReturnsInIf, NullIf, EmptyIf }

PrefixExprs ==
    {PrefixExpression(op, o) : op \in PrefixOps, o \in Operands} \cup
    {PrefixExpression(op1, PrefixExpression(op2, o)) :
        op1 \in PrefixOps, op2 \in PrefixOps,
        o \in {Boolean(TRUE), Boolean(FALSE), IntegerLiteral(1), Less, Greater,
               IntOperand(MinInt)}}

InfixExprs ==
    {InfixExpression(l, op, r) : l \in Operands, op \in InfixOps, r \in Operands}

\* the blocks of the if-expressions
Blocks ==
    { <<>>,
      <<ES(IntegerLiteral(2))>>,
      <<LetStatement("y", IntegerLiteral(2))>>,
      <<ReturnStatement(IntegerLiteral(2))>>,
      <<ES(Identifier("y"))>>,
      <<ES(IntegerLiteral(2)), ES(IntegerLiteral(3))>>,
      <<ES(Boolean(TRUE))>>,
      <<LetStatement("y", IntegerLiteral(3)), ES(Identifier("y"))>> }

IfExprs ==
    {IfExpression(c, Block(b1), NoBlock) : c \in Operands, b1 \in Blocks} \cup
    {IfExpression(c, Block(b1), Block(b2)) :
        c \in Operands, b1 \in Blocks, b2 \in Blocks}

\* a statement at the bottom of d nested if-blocks, each block followed by
\* the statement after: if (c) { if (c) { core; after } after }
RECURSIVE Nested(_, _, _, _)
Nested(d, c, core, after) ==
    IF d = 0 THEN core
    ELSE ES(If(c, <<Nested(d - 1, c, core, after), after>>))

NestConds == {Boolean(TRUE), IntegerLiteral(0), Less}
\* the statement that ends the evaluation
Cores ==
    { ReturnStatement(IntegerLiteral(0)),
      ReturnStatement(IntegerLiteral(1)),
      ReturnStatement(InfixExpression(Boolean(TRUE), "+", Boolean(FALSE))),
      ES(InfixExpression(Boolean(TRUE), "+", Boolean(FALSE))),
      ES(UnboundX),
      LetStatement("y", UnboundX),
      ES(IntegerLiteral(1)) }
\* the statements that follow it
Afters ==
    { ReturnStatement(IntegerLiteral(2)),
      LetStatement("z", IntegerLiteral(2)),
      ES(Identifier("w")) }

NestedPrograms ==
    {<<Nested(d, c, core, after)>> :
        d \in 1..MaxDepth, c \in NestConds, core \in Cores, after \in Afters}
    \cup
    {<<Nested(d, c, core, after), after>> :
        d \in 1..MaxDepth, c \in NestConds, core \in Cores, after \in Afters}

\* the statements of the longer programs
TopStmts ==
    { LetStatement("x", IntegerLiteral(1)),
      LetStatement("x", IntegerLiteral(2)),
      LetStatement("x", InfixExpression(Identifier("x"), "+", IntegerLiteral(1))),
      LetStatement("x", ReturnsInIf),
      ES(Identifier("x")),
      ES(IntegerLiteral(3)),
      ES(InfixExpression(IntegerLiteral(1), "+", Boolean(TRUE))),
      ES(If(Boolean(TRUE), <<ReturnStatement(Identifier("x"))>>)),
      ES(If(Boolean(TRUE), <<LetStatement("x", IntegerLiteral(3))>>)),
      ReturnStatement(Identifier("x")),
      ReturnStatement(IntegerLiteral(0)),
      ReturnStatement(ReturnsInIf) }

\* the values a let is given: values of every kind, Errors, an aborting
\* division, and if-expressions whose block binds a name before it ends
LetValues ==
    { IntegerLiteral(2), Identifier("x"), Identifier("w"), Less,
      InfixExpression(IntegerLiteral(1), "+", Boolean(TRUE)),
      InfixExpression(IntegerLiteral(1), "/", IntegerLiteral(0)),
      ReturnsInIf, NullIf, EmptyIf,
      If(Boolean(TRUE), <<LetStatement("x", IntegerLiteral(3)), ES(Identifier("w"))>>),
      If(Boolean(TRUE), <<LetStatement("y", IntegerLiteral(3)), ES(Identifier("w"))>>),
      If(Boolean(TRUE), <<LetStatement("y", IntegerLiteral(3)), ES(Identifier("y"))>>) }

\* let x = <value>, with x bound or unbound before it, and a use of x after
LetPrograms ==
    {<<pre, LetStatement("x", e), ES(Identifier("x"))>> :
        pre \in {LetStatement("x", IntegerLiteral(1)), ES(IntegerLiteral(3))},
        e \in LetValues}

\* let x = a; while (x < 2) { let x = x + 1 } return x
WhilePrograms ==
    {<<LetStatement("x", IntegerLiteral(a)),
       ES(WhileExpression(
              InfixExpression(Identifier("x"), "<", IntegerLiteral(2)),
              Block(<<LetStatement("x", InfixExpression(Identifier("x"), "+",
                                                        IntegerLiteral(1)))>>))),
       ReturnStatement(Identifier("x"))>> : a \in 0..2}

\* infix expressions whose operands are told apart by what they leave: two
\* different Errors, a division that aborts, a block that binds a name
OrderOperands ==
    { UnboundX, Identifier("w"), IntegerLiteral(1),
      InfixExpression(IntegerLiteral(1), "/", IntegerLiteral(0)),
      If(Boolean(TRUE), <<LetStatement("y", IntegerLiteral(2)), ES(Identifier("y"))>>),
      InfixExpression(Identifier("w"), "-", IntegerLiteral(1)) }

OrderPrograms ==
    {<<ES(InfixExpression(l, op, r)), ES(Identifier("y"))>> :
        l \in OrderOperands, r \in OrderOperands, op \in {"+", "<"}}

\* expressions to evaluate again in the environment they leave: with and
\* without a let in the block they take
TwiceExprs ==
    { If(Boolean(TRUE), <<LetStatement("x", InfixExpression(Identifier("x"), "+",
                                                            IntegerLiteral(1))),
                          ES(Identifier("x"))>>),
      IfExpression(InfixExpression(Identifier("x"), "<", IntegerLiteral(2)),
                   Block(<<LetStatement("x", IntegerLiteral(2)), ES(IntegerLiteral(1))>>),
                   Block(<<ES(IntegerLiteral(0))>>)),
      IfExpression(InfixExpression(Identifier("x"), "<", IntegerLiteral(2)),
                   Block(<<ES(Identifier("x"))>>),
                   Block(<<LetStatement("x", IntegerLiteral(0))>>)),
      InfixExpression(Identifier("x"), "+", IntegerLiteral(1)) }

TwicePrograms ==
    {<<LetStatement("x", IntegerLiteral(a)), ES(e), ES(e)>> :
        a \in 0..2, e \in TwiceExprs}

RECURSIVE SeqsUpTo(_, _)
SeqsUpTo(S, n) ==
    IF n = 0 THEN {<<>>}
    ELSE LET shorter == SeqsUpTo(S, n - 1) IN
         shorter \cup {Append(p, s) : p \in shorter, s \in S}

Programs ==
    SeqsUpTo(TopStmts, MaxStmts)
    \cup {<<ES(e)>> : e \in Operands \cup PrefixExprs \cup InfixExprs \cup IfExprs}
    \cup {<<ReturnStatement(e)>> : e \in Operands}
    \cup NestedPrograms
    \cup LetPrograms
    \cup WhilePrograms
    \cup OrderPrograms
    \cup TwicePrograms

----------------------------------------------------------------------------
(* evalProgram: one action for each turn of its loop *)

\* no environment is allocated apart from the evaluator's own
EnvIdle == heap = <<>> /\ last = <<"none">>

\* no input is parsed
ParserIdle == parser = New(<<>>) /\ ast = <<>> /\ ppc = "done"

\* no lexer is called apart from the parser's own
LexerIdle == lexer = NewLexer(<<>>) /\ tokens = <<>>

Init ==
    /\ program \in Programs
    /\ env = NewEnvironment
    /\ idx = 1
    /\ result = Nil
    /\ pc = "loop"
    /\ log = <<>>
    /\ EnvIdle
    /\ ParserIdle
    /\ LexerIdle

\* faulty variant: a ReturnValue does not end the loop
programStep_NoStop(res) ==
    IF res = Nil THEN "panic"
    ELSE IF Type(res) = ERROR_OBJ THEN "return"
    ELSE "next"

\* what the loop does with the value of a statement
\*   "unwrap": return the ReturnValue's inner value
\*   "return": return the value itself (an Error)
\*   "panic":  result.Type() on a nil result
\*   "next":   go on with the next statement
programStep(res) ==
    IF res # Nil /\ Type(res) = RETURN_VALUE_OBJ THEN "unwrap"
    ELSE IF res = Nil THEN "panic"
    ELSE IF Type(res) = ERROR_OBJ THEN "return"
    ELSE "next"

\* evalProgram as a whole, from the statement i on: what it returns, or the
\* panic it ends with
RECURSIVE evalProgramLoop(_, _, _, _, _)
evalProgramLoop(stmts, i, res, e, l) ==
    IF i > Len(stmts) THEN <<"return", res>>
    ELSE LET r == Eval(stmts[i], e, l) IN
         IF r.panic # "" THEN <<"panic", r.panic>>
         ELSE CASE programStep(r.obj) = "unwrap" -> <<"return", Value(r.obj)>>
                [] programStep(r.obj) = "panic" -> <<"panic", NilDeref>>
                [] programStep(r.obj) = "return" -> <<"return", r.obj>>
                [] OTHER -> evalProgramLoop(stmts, i + 1, r.obj, r.env, r.log)

evalProgram(stmts) == evalProgramLoop(stmts, 1, Nil, NewEnvironment, <<>>)

\* result = Eval(s, env) for the statement at idx, and the checks after it
evalProgramStmt ==
    /\ pc = "loop"
    /\ idx <= Len(program)
    /\ LET r == Eval(program[idx], env, log) IN
       /\ env' = r.env
       /\ log' = r.log
       /\ IF r.panic # ""
          THEN /\ pc' = "panic"
               /\ UNCHANGED <<idx, result>>
          ELSE CASE programStep(r.obj) = "unwrap" ->
                      /\ result' = Value(r.obj)
                      /\ pc' = "done"
                      /\ UNCHANGED idx
                 [] programStep(r.obj) = "panic" ->
                      /\ result' = r.obj
                      /\ pc' = "panic"
                      /\ UNCHANGED idx
                 [] programStep(r.obj) = "return" ->
                      /\ result' = r.obj
                      /\ pc' = "done"
                      /\ UNCHANGED idx
                 [] OTHER ->
                      /\ result' = r.obj
                      /\ idx' = idx + 1
                      /\ UNCHANGED pc
    /\ UNCHANGED <<program, envVars, parserVars, lexerVars>>

\* the loop is over: return result
evalProgramEnd ==
    /\ pc = "loop"
    /\ idx > Len(program)
    /\ pc' = "done"
    /\ UNCHANGED <<program, env, idx, result, log, envVars, parserVars, lexerVars>>

Next == evalProgramStmt \/ evalProgramEnd

Spec == Init /\ [][Next]_vars

----------------------------------------------------------------------------
(* The environments on their own: any sequence of allocations, writes and   *)
(* lookups a caller of the object package can make                          *)

EnvNames == {"x", "y"}
EnvValues == {NewInteger(1), NewInteger(2)}

\* no program is evaluated
EvalIdle ==
    /\ program = <<>>
    /\ env = NewEnvironment
    /\ idx = 1
    /\ result = Nil
    /\ pc = "done"
    /\ log = <<>>

EnvInit == EvalIdle /\ EnvIdle /\ ParserIdle /\ LexerIdle

\* NewEnvironment()
NewEnvironmentCall ==
    /\ Len(heap) < MaxEnvs
    /\ heap' = Append(heap, EnvObject(<<>>, NilEnv))
    /\ last' = <<"none">>
    /\ UNCHANGED <<evalVars, parserVars, lexerVars>>

\* NewEnclosedEnvironment(outer)
NewEnclosedEnvironment ==
    /\ Len(heap) < MaxEnvs
    /\ \E outer \in 1..Len(heap) :
          heap' = Append(heap, EnvObject(<<>>, outer))
    /\ last' = <<"none">>
    /\ UNCHANGED <<evalVars, parserVars, lexerVars>>

\* the number of bindings in the environments 1..k
RECURSIVE Bindings(_)
Bindings(k) ==
    IF k = 0 THEN 0 ELSE Cardinality(DOMAIN heap[k].store) + Bindings(k - 1)

\* e.Set(name, val)
SetCall ==
    /\ \E i \in 1..Len(heap), name \in EnvNames, val \in EnvValues :
          /\ name \in DOMAIN heap[i].store \/ Bindings(Len(heap)) < MaxBindings
          /\ heap' = HeapSet(heap, i, name, val)
          /\ last' = <<"Set", i, name, val>>
    /\ UNCHANGED <<evalVars, parserVars, lexerVars>>

\* evalIdentifier(node, e): the lookup of a name from the environment i
evalIdentifierCall ==
    /\ \E i \in 1..Len(heap), name \in EnvNames :
          last' = <<"evalIdentifier", i, name,
                    evalIdentifier(Identifier(name), Chain(heap, i))>>
    /\ UNCHANGED <<heap, evalVars, parserVars, lexerVars>>

EnvNext ==
    \/ NewEnvironmentCall
    \/ NewEnclosedEnvironment
    \/ SetCall
    \/ evalIdentifierCall

EnvSpec == EnvInit /\ [][EnvNext]_vars

----------------------------------------------------------------------------
(* The parser: New on a token stream, then one action for each turn of      *)
(* ParseProgram's loop                                                      *)

InfixWords ==
    {<<"+">>, <<"-">>, <<"*">>, <<"/">>, <<"<">>, <<">">>, <<"=", "=">>, <<"!", "=">>}

OperandNames == <<"a", "b", "c", "d", "e", "f">>

\* the chains a op b op c ...: n operators, the operands named in order
RECURSIVE Chains(_)
Chains(n) ==
    IF n = 0 THEN {<< <<"a">> >>}
    ELSE {c \o <<op, <<OperandNames[n + 1]>>>> : c \in Chains(n - 1), op \in InfixWords}

\* expressions with prefix operators, calls, indexing and groups
MixedSources ==
    { <<"-", "a", " ", "*", " ", "b">>, <<"!", "-", "a">>,
      <<"-", "a", "(", "b", ")">>, <<"-", "a", "[", "b", "]">>,
      <<"!", "a", "(", "b", ")">>, <<"!", "a", "[", "b", "]">>,
      <<"a", " ", "*", " ", "b", "(", "c", ")">>,
      <<"a", " ", "*", " ", "b", "[", "c", "]">>,
      <<"a", " ", "+", " ", "b", "(", "c", ",", " ", "d", ")">>,
      <<"a", "(", "b", ")", "[", "c", "]">>,
      <<"a", "[", "b", "]", "(", "c", ")">>,
      <<"a", " ", "=", "=", " ", "-", "b", " ", "+", " ", "c">>,
      <<"-", "a", " ", "+", " ", "b", " ", "*", " ", "c">>,
      <<"(", "a", " ", "+", " ", "b", ")", " ", "*", " ", "c">>,
      <<"a", " ", "*", " ", "(", "b", " ", "+", " ", "c", ")">>,
      <<"[", "a", ",", " ", "b", " ", "+", " ", "c", "]">> }

\* a prefix operator before a binary operator, a call and an index
PrefixSources ==
    UNION {{<<pfx, "a", " ">> \o op \o <<" ", "b">> : op \in InfixWords}
           \cup {<<pfx, "a", "(", "b", ")">>, <<pfx, "a", "[", "b", "]">>} :
           pfx \in {"-", "!"}}

KwLet == <<"l", "e", "t">>
KwReturn == <<"r", "e", "t", "u", "r", "n">>
KwIf == <<"i", "f">>
KwElse == <<"e", "l", "s", "e">>
KwTrue == <<"t", "r", "u", "e">>
KwWhile == <<"w", "h", "i", "l", "e">>

\* the expressions returned
ReturnValues ==
    { <<"1">>, <<"x">>, <<"-", "1">>, KwTrue, <<"1", " ", "+", " ", "2">>,
      <<"1", " ", "*", " ", "2", " ", "+", " ", "3">>, <<"(", "1", ")">> }

\* return e and return e; alone, before another statement, and in a block
ReturnSources ==
    UNION {{ Spaced(<<KwReturn, e>>),
             Spaced(<<KwReturn, e>>) \o <<";">>,
             Spaced(<<KwReturn, e \o <<";">>, <<"2">>>>),
             Spaced(<<KwIf, <<"(">>, KwTrue, <<")">>, <<"{">>, KwReturn, e, <<"}">>>>),
             Spaced(<<KwIf, <<"(">>, KwTrue, <<")">>, <<"{">>, KwReturn,
                      e \o <<";">>, <<"}">>>>) } : e \in ReturnValues}

\* let statements, well-formed and not, each before the statement 2
LetSources ==
    {Spaced(<<KwLet>> \o w \o << <<"2">> >>) :
        w \in { << <<"x">>, <<"=">>, <<"1", ";">> >>,
                << <<"x">>, <<"=">>, <<"1">> >>,
                << <<"=">>, <<"1", ";">> >>,
                << <<"x">>, <<"1", ";">> >>,
                << <<"1", ";">> >>,
                << <<"x", ";">> >>,
                << <<";">> >>,
                << <<"x">>, <<"=">>, <<";">> >> }}

\* whole programs
ProgramSources ==
    { <<>>, <<"1">>, <<"1", ";">>, <<"1", ";", " ", "2">>, <<"1", " ", "2">>,
      <<"x", ";", " ", "y">>, <<"-", "1">>, <<"!">> \o KwTrue, KwTrue,
      <<"1", " ", "+", " ", "2", " ", "*", " ", "3">>,
      <<"-", "1", " ", "-", " ", "2">>,
      <<"0", "1">>,
      Spaced(<<KwLet, <<"x">>, <<"=">>, <<"1", ";">>, <<"x">>>>),
      Spaced(<<KwLet, <<"x">>, <<"=">>, <<"1", ";">>, KwLet, <<"y">>, <<"=">>,
               <<"2", ";">>, <<"x">>, <<"+">>, <<"y">>>>),
      Spaced(<<KwIf, <<"(">>, KwTrue, <<")">>, <<"{">>, <<"1">>, <<"}">>>>),
      Spaced(<<KwIf, <<"(">>, <<"1">>, <<"<">>, <<"2">>, <<")">>, <<"{">>, <<"1">>,
               <<"}">>>>),
      Spaced(<<KwIf, <<"(">>, <<"1">>, <<">">>, <<"2">>, <<")">>, <<"{">>, <<"1">>,
               <<"}">>, KwElse, <<"{">>, <<"2">>, <<"}">>>>),
      Spaced(<<KwLet, <<"x">>, <<"=">>, <<"0", ";">>, KwWhile, <<"(">>, <<"x">>,
               <<"<">>, <<"2">>, <<")">>, <<"{">>, KwLet, <<"x">>, <<"=">>, <<"x">>,
               <<"+">>, <<"1">>, <<"}">>, <<"x">>>>),
      Spaced(<<KwReturn, <<"1">>>>), Spaced(<<KwReturn, <<"1", ";">>, <<"2">>>>) }

\* the runs of digits: all of up to MaxDigits digits, and the ones of one
\* more digit that start with 0
DigitRuns ==
    UNION {[1..n -> Digits] : n \in 1..MaxDigits}
    \cup {<<"0">> \o r : r \in [1..MaxDigits -> Digits]}

KwFor == <<"f", "o", "r">>
KwIn == <<"i", "n">>

\* for loops, with a plain iterator and with an assignment in its place
ForSources ==
    {Spaced(<<KwFor>> \o w) :
        w \in { << <<"i">>, KwIn, <<"[", "1", "]">>, <<"{">>, <<"}">> >>,
                << <<"i">>, KwIn, <<"[", "1", ",", "2", "]">>, <<"{">>, <<"i">>, <<"}">> >>,
                << <<"i">>, KwIn, <<"x">>, <<"{">>, <<"1">>, <<"}">> >>,
                << <<"i">>, <<"=">>, <<"1">>, KwIn, <<"[", "1", "]">>, <<"{">>, <<"}">> >>,
                << <<"i">>, <<"=">>, <<"1">> >>,
                << <<"1">>, KwIn, <<"x">>, <<"{">>, <<"}">> >>,
                << <<"i">>, <<"x">>, <<"{">>, <<"}">> >>,
                << <<"i">>, KwIn, <<"[", "1">>, <<"{">>, <<"}">>, <<";">>, <<"2">> >> }}

Sources ==
    UNION {{Spaced(c) : c \in Chains(n)} : n \in 1..MaxChain}
    \cup MixedSources \cup PrefixSources \cup ForSources \cup DigitRuns
    \cup ReturnSources \cup LetSources \cup ProgramSources

\* a COMMENT token, as the parser is given one for a line comment
TokenComment == Token("COMMENT", <<"/", "/", "c">>)

\* the streams with up to n COMMENT tokens put anywhere into the stream toks
RECURSIVE WithComments(_, _)
WithComments(toks, n) ==
    IF n = 0 THEN {toks}
    ELSE LET fewer == WithComments(toks, n - 1) IN
         fewer \cup UNION {{SubSeq(s, 1, i) \o <<TokenComment>> \o SubSeq(s, i + 1, Len(s)) :
                                 i \in 0..Len(s)} : s \in fewer}

\* the texts whose token streams are given comments
CommentedSources ==
    { <<>>, <<"1", " ", "+", " ", "2">>, <<"1", ";", " ", "2">>,
      Spaced(<<KwLet, <<"x">>, <<"=">>, <<"1", ";">>>>),
      Spaced(<<KwIf, <<"(">>, KwTrue, <<")">>, <<"{">>, <<"1">>, <<"}">>>>) }

TokenStreams ==
    {Lex(s) : s \in Sources}
    \cup UNION {WithComments(Lex(s), MaxComments) : s \in CommentedSources}

ParserInit ==
    /\ \E toks \in TokenStreams : parser = New(toks)
    /\ ast = <<>>
    /\ ppc = "parse"
    /\ EvalIdle
    /\ EnvIdle
    /\ LexerIdle

\* one turn of the loop: a statement, then nextToken
parseProgramStmt ==
    /\ ppc = "parse"
    /\ ~curTokenIs(parser, "EOF")
    /\ LET t == parseProgramTurn(parser, ast) IN
       /\ parser' = t.p
       /\ IF t.p.panic # ""
          THEN ppc' = "panic" /\ UNCHANGED ast
          ELSE ast' = t.node /\ UNCHANGED ppc
    /\ UNCHANGED <<evalVars, envVars, lexerVars>>

\* the current token is EOF: return program
parseProgramEnd ==
    /\ ppc = "parse"
    /\ curTokenIs(parser, "EOF")
    /\ ppc' = "done"
    /\ UNCHANGED <<parser, ast, evalVars, envVars, lexerVars>>

ParserNext == parseProgramStmt \/ parseProgramEnd

ParserSpec == ParserInit /\ [][ParserNext]_vars

\* ParseProgram runs to its end once called: its loop is not interrupted
ParserFairSpec == ParserSpec /\ WF_vars(ParserNext)

----------------------------------------------------------------------------
(* The lexer on its own: New on an input, then NextToken called again and *)
(* again, also after it has returned EOF                                   *)

\* the bytes of the inputs: a letter, a digit, a space, a quote, the byte 0
\* and two punctuators
InputBytes == {"a", "1", " ", "\"", NUL, "=", ";"}

Inputs == UNION {[1..n -> InputBytes] : n \in 0..MaxInput}

LexerInit ==
    /\ \E input \in Inputs : lexer = NewLexer(input)
    /\ tokens = <<>>
    /\ EvalIdle
    /\ EnvIdle
    /\ ParserIdle

\* tok := l.NextToken()
NextTokenCall ==
    /\ Len(tokens) < MaxCalls
    /\ lexer' = NextToken(lexer).lx
    /\ tokens' = Append(tokens, NextToken(lexer).tok)
    /\ UNCHANGED <<evalVars, envVars, parserVars>>

LexerSpec == LexerInit /\ [][NextTokenCall]_vars

----------------------------------------------------------------------------
(* Properties *)

IsEnter(ev) == ev[1] = "enter"
IsExit(ev) == ev[1] = "exit"

\* the kind of a value ("nil" for no value), read off the value itself
KindOf(obj) == obj[1]

\* the evaluation of the first k statements of p one after the other, each in
\* the environment the one before left
RECURSIVE RunStmts(_, _)
RunStmts(p, k) ==
    IF k = 0 THEN Ret(Nil, NewEnvironment, <<>>)
    ELSE LET prev == RunStmts(p, k - 1) IN Eval(p[k], prev.env, prev.log)

\* the evaluation r yields an ordinary value
Completes(r) ==
    /\ r.panic = ""
    /\ r.obj # Nil
    /\ Type(r.obj) \notin {RETURN_VALUE_OBJ, ERROR_OBJ}

\* statement k is the first statement of p to yield a ReturnValue
FirstReturn(p, k) ==
    /\ \A j \in 1..(k - 1) : Completes(RunStmts(p, j))
    /\ RunStmts(p, k).panic = ""
    /\ RunStmts(p, k).obj # Nil
    /\ Type(RunStmts(p, k).obj) = RETURN_VALUE_OBJ

\* C1: program evaluation stops at the first top-level statement that yields
\* a ReturnValue: the loop never goes past it, the program result is the
\* ReturnValue's inner value, and the environment and the trace are those
\* this statement left (no later statement is evaluated, no later let binds).
C1_StopsAtFirstReturn ==
    \A k \in 1..Len(program) :
        FirstReturn(program, k) =>
            /\ idx <= k
            /\ pc # "panic"
            /\ pc = "done" =>
                  /\ idx = k
                  /\ result = Value(RunStmts(program, k).obj)
                  /\ env = RunStmts(program, k).env
                  /\ log = RunStmts(program, k).log

\* a program returned from its second statement, with a let after it
C1_Witness ==
    /\ pc = "done"
    /\ Len(program) = 3
    /\ FirstReturn(program, 2)
    /\ NodeType(program[1]) = "LetStatement"
    /\ NodeType(program[2]) = "ReturnStatement"
    /\ NodeType(program[3]) = "LetStatement"
    /\ program[3][3] # program[1][3]
    /\ result = NewInteger(1)

\* no Eval call of the trace l is on node
NeverEntered(l, node) == \A i \in 1..Len(l) : l[i] # Enter(node)

ReturnCores == {ReturnStatement(IntegerLiteral(a)) : a \in {0, 1}}

\* C2: a return executed at the bottom of nested blocks makes the program
\* yield its value: every enclosing block hands the ReturnValue up as it is,
\* and the statement after the inner block is evaluated in no enclosing
\* block nor at top level.
C2_NestedReturnUnwinds ==
    \A d \in 1..MaxDepth, c \in NestConds, after \in Afters, a \in {0, 1} :
        LET core == ReturnStatement(IntegerLiteral(a))
            stmt == Nested(d, c, core, after)
        IN  program \in {<<stmt>>, <<stmt, after>>} =>
                /\ idx = 1
                /\ pc # "panic"
                /\ pc = "done" =>
                      /\ result = NewInteger(a)
                      /\ env = NewEnvironment
                      /\ NeverEntered(log, after)
                      /\ \A i \in 1..Len(log) :
                            (IsExit(log[i]) /\ NodeType(log[i][2]) = "BlockStatement")
                                => log[i][3] = NewReturnValue(NewInteger(a))

\* return 1 at the bottom of MaxDepth blocks, a return 2 after each block
C2_Witness ==
    /\ pc = "done"
    /\ program = <<Nested(MaxDepth, Boolean(TRUE), ReturnStatement(IntegerLiteral(1)),
                          ReturnStatement(IntegerLiteral(2))),
                   ReturnStatement(IntegerLiteral(2))>>
    /\ result = NewInteger(1)

\* C3: the value Eval returns for a Program is never a ReturnValue.
C3_ResultNeverReturnValue ==
    pc = "done" => (result = Nil \/ Type(result) # RETURN_VALUE_OBJ)

\* C4: the first Error an Eval call yields is the program result, unchanged:
\* after it no Eval call is entered (no later statement of the block, of an
\* enclosing block or of the program is evaluated), every pending call
\* returns this very Error, and the evaluation does not abort.
C4_FirstErrorSurfaces ==
    \A i \in 1..Len(log) :
        (IsExit(log[i]) /\ KindOf(log[i][3]) = "ERROR") =>
            /\ \A j \in (i + 1)..Len(log) :
                  IsExit(log[j]) /\ log[j][3] = log[i][3]
            /\ pc = "done"
            /\ result = log[i][3]

\* an Error as the operand of return at the bottom of MaxDepth blocks
C4_Witness ==
    /\ pc = "done"
    /\ \E after \in Afters :
          program = <<Nested(MaxDepth, Boolean(TRUE),
                             ReturnStatement(InfixExpression(Boolean(TRUE), "+",
                                                             Boolean(FALSE))),
                             after),
                      after>>
    /\ result = newError("unknown operator: BOOLEAN + BOOLEAN")

\* C5: every Boolean and every Null an Eval call returns is one of the three
\* global objects TRUE, FALSE, NULL.
C5_CanonicalSingletons ==
    \A i \in 1..Len(log) :
        (IsExit(log[i]) /\ KindOf(log[i][3]) \in {"BOOLEAN", "NULL"}) =>
            log[i][3] \in {ObjTRUE, ObjFALSE, NULL}

\* the program is the single expression statement exp
IsExpression(exp) == program = <<ES(exp)>>

\* the program is a single expression statement of the given node type
IsExpressionOf(type) ==
    /\ Len(program) = 1
    /\ NodeType(program[1]) = "ExpressionStatement"
    /\ NodeType(program[1][2]) = type

\* C6: !e is the Boolean with the negated value when e evaluates to a
\* Boolean, TRUE when e evaluates to Null, FALSE when e evaluates to any
\* other kind.
C6_BangNegates ==
    (IsExpressionOf("PrefixExpression") /\ program[1][2][2] = "!") =>
        LET e == Eval(program[1][2][3], NewEnvironment, <<>>) IN
        (e.panic = "" /\ KindOf(e.obj) \notin {"nil", "ERROR"} /\ pc = "done") =>
            CASE KindOf(e.obj) = "BOOLEAN" ->
                    /\ KindOf(result) = "BOOLEAN"
                    /\ result[3] = ~e.obj[3]
              [] KindOf(e.obj) = "NULL" -> result = ObjTRUE
              [] OTHER -> result = ObjFALSE

\* the kind of the value of an operand, by the operand's form ("" when it
\* has no value: an Error, nil)
OperandKind(exp) ==
    CASE exp \in IntOperands -> "INTEGER"
      [] exp \in {Boolean(TRUE), Boolean(FALSE), Less, Greater} -> "BOOLEAN"
      [] exp \in {StringLiteral("s"), NullIf} -> "NULL"
      [] exp = ReturnsInIf -> "RETURN_VALUE"
      [] OTHER -> ""

\* C7: an infix expression whose operands evaluate to values of different
\* kinds yields Error("type mismatch: <left kind> <op> <right kind>"), for
\* every operator: the result is this Error, not an Integer or a Boolean.
C7_TypeMismatch ==
    IsExpressionOf("InfixExpression") =>
        LET left == OperandKind(program[1][2][2])
            op == program[1][2][3]
            right == OperandKind(program[1][2][4])
        IN  (left # "" /\ right # "" /\ left # right) =>
                /\ pc # "panic"
                /\ pc = "done" =>
                      result = <<"ERROR", "type mismatch: " \o left \o " " \o op
                                          \o " " \o right>>

\* true + 1 was evaluated
C7_Witness ==
    /\ pc = "done"
    /\ IsExpression(InfixExpression(Boolean(TRUE), "+", IntegerLiteral(1)))
    /\ result = <<"ERROR", "type mismatch: BOOLEAN + INTEGER">>

\* C8: a / 0 evaluates to an Error, for every Integer a: the evaluator does
\* not abort.
C8_DivisionByZeroIsError ==
    \A a \in MinInt..MaxInt :
        IsExpression(InfixExpression(IntOperand(a), "/", IntegerLiteral(0))) =>
            /\ pc # "panic"
            /\ pc = "done" => KindOf(result) = "ERROR"

\* the integer of the Integer object's range that is congruent to z
Wrapped(z) == CHOOSE r \in MinInt..MaxInt : (z - r) % Modulus = 0

\* the quotient of a by b rounded toward zero (b # 0)
Truncated(a, b) ==
    CHOOSE q \in (0 - Modulus)..Modulus :
        \E r \in (0 - Modulus)..Modulus :
            /\ a = q * b + r
            /\ (IF r < 0 THEN 0 - r ELSE r) < (IF b < 0 THEN 0 - b ELSE b)
            /\ r = 0 \/ ((r < 0) = (a < 0))

Arithmetic(a, op, b) ==
    CASE op = "+" -> Wrapped(a + b)
      [] op = "-" -> Wrapped(a - b)
      [] op = "*" -> Wrapped(a * b)
      [] op = "/" -> Wrapped(Truncated(a, b))

\* C9: a op b, for op one of + - * / and the result defined, is the Integer
\* of two's-complement arithmetic at the width of Integer.Value (wrap-around
\* on overflow, division truncating toward zero), and -a is the negation of a
\* at that width.
C9_IntegerArithmetic ==
    /\ IsExpressionOf("InfixExpression") =>
          \A a \in MinInt..MaxInt, b \in MinInt..MaxInt, op \in {"+", "-", "*", "/"} :
              (/\ IsExpression(InfixExpression(IntOperand(a), op, IntOperand(b)))
               /\ ~(op = "/" /\ b = 0)) =>
                  /\ pc # "panic"
                  /\ pc = "done" => result = <<"INTEGER", Arithmetic(a, op, b)>>
    /\ IsExpressionOf("PrefixExpression") =>
          \A a \in MinInt..MaxInt :
              IsExpression(PrefixExpression("-", IntOperand(a))) =>
                  /\ pc # "panic"
                  /\ pc = "done" => result = <<"INTEGER", Wrapped(0 - a)>>

\* MinInt / -1 was evaluated: the quotient overflows and wraps to MinInt
C9_Witness ==
    /\ pc = "done"
    /\ IsExpression(InfixExpression(IntOperand(MinInt), "/", IntOperand(0 - 1)))
    /\ result = <<"INTEGER", MinInt>>

\* the block the claim has an if-expression evaluate when its condition is
\* the value cond (NoBlock: none)
ClaimedBranch(node, cond) ==
    CASE KindOf(cond) = "BOOLEAN" /\ cond[3] -> node[3]
      [] KindOf(cond) = "BOOLEAN" /\ ~cond[3] -> node[4]
      [] KindOf(cond) = "INTEGER" -> node[3]
      [] OTHER -> NoBlock

\* C10: an if-expression evaluates its condition once and then exactly the
\* consequence when the condition is Boolean true or any Integer, exactly
\* the alternative when it is Boolean false and there is an else, and no
\* block, yielding NULL, in every other case; an Error condition is returned
\* as is.  The trace of the if-expression is the trace of its condition,
\* then the trace of that block, and nothing else.
C10_IfExpression ==
    (IsExpressionOf("IfExpression") /\ pc # "loop") =>
        LET stmt == program[1]
            node == program[1][2]
            cond == Eval(node[2], NewEnvironment, <<Enter(stmt), Enter(node)>>)
            block == ClaimedBranch(node, cond.obj)
            body == Eval(block, cond.env, cond.log)
        IN  (cond.panic = "" /\ cond.obj # Nil) =>
                CASE KindOf(cond.obj) = "ERROR" ->
                        /\ log = cond.log \o <<Exit(node, cond.obj), Exit(stmt, cond.obj)>>
                        /\ env = cond.env
                        /\ pc = "done" /\ result = cond.obj
                  [] KindOf(cond.obj) # "ERROR" /\ block = NoBlock ->
                        /\ log = cond.log \o <<Exit(node, NULL), Exit(stmt, NULL)>>
                        /\ env = cond.env
                        /\ pc = "done" /\ result = NULL
                  [] OTHER ->
                        /\ log = body.log \o <<Exit(node, body.obj), Exit(stmt, body.obj)>>
                        /\ env = body.env

\* if (0) { let y = 2 } else { 2 } was evaluated: y is bound
C10_Witness ==
    /\ pc = "done"
    /\ IsExpression(IfExpression(IntegerLiteral(0),
                                 Block(<<LetStatement("y", IntegerLiteral(2))>>),
                                 Block(<<ES(IntegerLiteral(2))>>)))
    /\ "y" \in DOMAIN env[1]
    /\ result = NULL

\* the statement at idx is a let and the step evaluates it to the end
LetStep ==
    /\ pc = "loop"
    /\ idx <= Len(program)
    /\ NodeType(program[idx]) = "LetStatement"
    /\ log' # log
    /\ pc' # "panic"

\* the value of the let's expression: the last Eval call to return before
\* the let itself returns
LetValue == log'[Len(log') - 1][3]

\* C11 (as stated): when the expression of a let evaluates to an Error the
\* let returns the Error and the environment is the one before the let;
\* otherwise the name is bound to the value.
C11_LetLeavesEnvOnError ==
    [][LetStep =>
          IF KindOf(LetValue) = "ERROR"
          THEN /\ log'[Len(log')] = Exit(program[idx], LetValue)
               /\ result' = LetValue
               /\ env' = env
          ELSE /\ program[idx][2] \in DOMAIN env'[1]
               /\ env'[1][program[idx][2]] = LetValue]_vars

\* C11 (amended): when the expression of a let evaluates to an Error the let
\* returns the Error and binds nothing: the environment is the one the
\* evaluation of the expression left, which is the one before the let when
\* the expression executed no let.  Otherwise the name is bound to the value
\* in the current environment, whatever it was bound to, and every other
\* name is as the evaluation of the expression left it.
C11_LetBindsUnlessError ==
    [][LetStep =>
          LET name == program[idx][2]
              before == Len(log) + 1
              after == Eval(program[idx][3], env, <<>>).env
              pure == \A i \in (before + 1)..Len(log') :
                          ~(IsEnter(log'[i]) /\ NodeType(log'[i][2]) = "LetStatement")
          IN  IF KindOf(LetValue) = "ERROR"
              THEN /\ log'[Len(log')] = Exit(program[idx], LetValue)
                   /\ result' = LetValue
                   /\ pc' = "done"
                   /\ env' = after
                   /\ pure => env' = env
              ELSE /\ Len(env') = 1
                   /\ DOMAIN env'[1] = DOMAIN after[1] \cup {name}
                   /\ env'[1][name] = LetValue
                   /\ \A n \in DOMAIN after[1] \ {name} : env'[1][n] = after[1][n]
                   /\ pure => DOMAIN env'[1] = DOMAIN env[1] \cup {name}]_vars

\* let x = 1; let x = w; x was evaluated: the second let returned the Error
\* and x is still bound to 1
C11_Witness ==
    /\ pc = "done"
    /\ program = <<LetStatement("x", IntegerLiteral(1)),
                   LetStatement("x", Identifier("w")), ES(Identifier("x"))>>
    /\ idx = 2
    /\ result = <<"ERROR", "identifier not found: w">>
    /\ env = << [n \in {"x"} |-> <<"INTEGER", 1>>] >>

\* the environment d outer pointers away from i (NilEnv: there is none)
RECURSIVE Up(_, _)
Up(i, d) ==
    IF d = 0 \/ i = NilEnv THEN i
    ELSE Up(heap[i].outer, d - 1)

\* the distances from i at which an environment binds name
BindersOf(i, name) ==
    {d \in 0..Len(heap) : Up(i, d) # NilEnv /\ name \in DOMAIN heap[Up(i, d)].store}

Ancestors(i) == {Up(i, d) : d \in 1..Len(heap)} \ {NilEnv}

\* C13: a write goes to the innermost environment only: a Set on an
\* environment leaves the store of its outer environment and of every
\* ancestor unchanged, and every lookup from one of them yields what it
\* yielded before.
C13_WritesInnermostOnly ==
    [][last'[1] = "Set" =>
          \A j \in Ancestors(last'[2]) :
              /\ heap'[j] = heap[j]
              /\ \A name \in EnvNames :
                    evalIdentifier(Identifier(name), Chain(heap', j))
                        = evalIdentifier(Identifier(name), Chain(heap, j))]_vars

\* x is bound to 1 in an environment and to 2 in one enclosed in it, and
\* after the writes a lookup of x from the outer one gave 1
C13_Witness ==
    /\ Len(heap) >= 2
    /\ heap[2].outer = 1
    /\ "x" \in DOMAIN heap[2].store
    /\ heap[2].store["x"] = <<"INTEGER", 2>>
    /\ "y" \in DOMAIN heap[2].store
    /\ last = <<"evalIdentifier", 1, "x", <<"INTEGER", 1>>>>

\* the Eval calls of the step that returned from a let that bound name
BoundBy(name) ==
    {j \in (Len(log) + 1)..Len(log') :
        /\ IsExit(log'[j])
        /\ NodeType(log'[j][2]) = "LetStatement"
        /\ log'[j][2][2] = name
        /\ KindOf(log'[j][3]) # "ERROR"}

\* the names of the lets the step entered
LetNames ==
    {log'[j][2][2] : j \in {k \in (Len(log) + 1)..Len(log') :
                              NodeType(log'[k][2]) = "LetStatement"}}

----------------------------------------------------------------------------
(* The parser and the printer *)

\* the parse of the text that Program.String() gives for the statements parsed
Reparsed == ParseProgram(Lex(ProgramString(ast)))

\* C15: for every program that parses without errors, the text
\* Program.String() of its AST parses without errors too and evaluates to
\* the same value as the program.
C15_PrinterRoundTrips ==
    (ppc = "done" /\ parser.errors = <<>>) =>
        /\ Reparsed.p.errors = <<>>
        /\ evalProgram(Reparsed.node) = evalProgram(ast)

\* the nodes the parser builds from the tokens
Leaf(tok) == <<"Identifier", Concat(tok[2]), tok>>
Unary(tok, right) == <<"PrefixExpression", Concat(tok[2]), right, tok>>
Binary(left, tok, right) == <<"InfixExpression", left, Concat(tok[2]), right, tok>>

BinaryTypes == {"==", "!=", "<", ">", "+", "-", "*", "/"}

\* the level the precedence order gives a binary operator
Level(type) ==
    CASE type \in {"==", "!="} -> 2
      [] type \in {"<", ">"} -> 3
      [] type \in {"+", "-"} -> 4
      [] type \in {"*", "/"} -> 5

\* the tokens are a op b op c ...: n binary operators between n + 1 names
IsChain(toks, n) ==
    /\ Len(toks) = 2 * n + 1
    /\ \A i \in 1..Len(toks) :
          IF i % 2 = 1 THEN toks[i][1] = "IDENT" ELSE toks[i][1] \in BinaryTypes

\* the tokens are a prefix operator, a name, and then the tokens of rest
IsPrefixed(toks, rest) ==
    /\ Len(toks) = 2 + Len(rest)
    /\ toks[1][1] \in {"-", "!"}
    /\ toks[2][1] = "IDENT"
    /\ \A i \in 1..Len(rest) :
          IF rest[i] = "binary" THEN toks[2 + i][1] \in BinaryTypes
          ELSE toks[2 + i][1] = rest[i]

\* the program is the one expression statement exp, parsed without errors
ParsedAs(exp) ==
    /\ parser.errors = <<>>
    /\ Len(ast) = 1
    /\ ast[1][1] = "ExpressionStatement"
    /\ ast[1][2] = exp

\* C16: the levels are in the order LOWEST < EQUALS < LESSGREATER < SUM <
\* PRODUCT < PREFIX < CALL < INDEX; a op1 b op2 c is (a op1 (b op2 c)) when
\* op2 is of a strictly higher level than op1 and ((a op1 b) op2 c)
\* otherwise; a prefix operator binds tighter than every binary operator,
\* call and index bind tighter than a prefix operator; the printed AST has
\* one pair of parentheses around every binary subexpression.
C16_PrecedenceOrder ==
    /\ LOWEST < EQUALS /\ EQUALS < LESSGREATER /\ LESSGREATER < SUM
    /\ SUM < PRODUCT /\ PRODUCT < PREFIX /\ PREFIX < CALL /\ CALL < INDEX
    /\ ppc = "done" =>
        LET t == parser.toks IN
        /\ IsChain(t, 2) =>
              LET a == Leaf(t[1])  b == Leaf(t[3])  c == Leaf(t[5])
                  sa == t[1][2]  sb == t[3][2]  sc == t[5][2]
                  o1 == <<" ">> \o t[2][2] \o <<" ">>
                  o2 == <<" ">> \o t[4][2] \o <<" ">>
              IN  IF Level(t[4][1]) > Level(t[2][1])
                  THEN /\ ParsedAs(Binary(a, t[2], Binary(b, t[4], c)))
                       /\ ProgramString(ast) =
                             <<"(">> \o sa \o o1 \o <<"(">> \o sb \o o2 \o sc
                                    \o <<")", ")">>
                  ELSE /\ ParsedAs(Binary(Binary(a, t[2], b), t[4], c))
                       /\ ProgramString(ast) =
                             <<"(", "(">> \o sa \o o1 \o sb \o <<")">> \o o2 \o sc
                                         \o <<")">>
        /\ IsPrefixed(t, <<"binary", "IDENT">>) =>
              ParsedAs(Binary(Unary(t[1], Leaf(t[2])), t[3], Leaf(t[4])))
        /\ IsPrefixed(t, <<"(", "IDENT", ")">>) =>
              ParsedAs(Unary(t[1], <<"CallExpression", Leaf(t[2]), <<Leaf(t[4])>>, t[3]>>))
        /\ IsPrefixed(t, <<"[", "IDENT", "]">>) =>
              ParsedAs(Unary(t[1], <<"IndexExpression", Leaf(t[2]), Leaf(t[4]), t[3]>>))

\* a + b * c parsed: the product is the right operand of the sum
C16_Witness ==
    /\ ppc = "done"
    /\ IsChain(parser.toks, 2)
    /\ parser.toks[2][1] = "+"
    /\ parser.toks[4][1] = "*"
    /\ ast[1][2][4][1] = "InfixExpression"

\* the chain of the first k operators of the tokens, nested to the left
RECURSIVE LeftNested(_, _)
LeftNested(toks, k) ==
    IF k = 0 THEN Leaf(toks[1])
    ELSE Binary(LeftNested(toks, k - 1), toks[2 * k], Leaf(toks[2 * k + 1]))

\* the operators of the chain are all of one level
OneLevel(toks, n) ==
    \A i, j \in 1..n : Level(toks[2 * i][1]) = Level(toks[2 * j][1])

\* C17: infix operators are left-associative: a chain a op1 b op2 c ... of
\* operators of one precedence level, of any length, parses as
\* (((a op1 b) op2 c) ...).
C17_LeftAssociative ==
    ppc = "done" =>
        \A n \in 1..MaxChain :
            (IsChain(parser.toks, n) /\ OneLevel(parser.toks, n)) =>
                ParsedAs(LeftNested(parser.toks, n))

\* a chain of MaxChain operators of one level, not all the same, parsed
C17_Witness ==
    /\ ppc = "done"
    /\ MaxChain >= 2
    /\ IsChain(parser.toks, MaxChain)
    /\ OneLevel(parser.toks, MaxChain)
    /\ parser.toks[2][1] # parser.toks[4][1]
    /\ ast[1][2][2][1] = "InfixExpression"

\* the expression the tokens are when they are parsed alone
ParsedAlone(toks) == ParseProgram(toks).node[1][2]

\* C18: for every expression e, return e and return e; parse without errors
\* into exactly one Return statement whose value is e, at top level and
\* inside a block.
C18_ReturnSemicolonOptional ==
    ppc = "done" =>
        \A e \in ReturnValues :
            LET ret == Lex(KwReturn \o <<" ">> \o e)
                semi == Lex(<<";">>)
                open == Lex(Spaced(<<KwIf, <<"(">>, KwTrue, <<")">>, <<"{">>>>))
                close == Lex(<<"}">>)
            IN  /\ parser.toks \in {ret, ret \o semi} =>
                      /\ parser.errors = <<>>
                      /\ Len(ast) = 1
                      /\ ast[1][1] = "ReturnStatement"
                      /\ ast[1][2] = ParsedAlone(Lex(e))
                /\ parser.toks \in {open \o ret \o close, open \o ret \o semi \o close} =>
                      /\ parser.errors = <<>>
                      /\ Len(ast) = 1
                      /\ ast[1][2][1] = "IfExpression"
                      /\ Len(ast[1][2][3][2]) = 1
                      /\ ast[1][2][3][2][1][1] = "ReturnStatement"
                      /\ ast[1][2][3][2][1][2] = ParsedAlone(Lex(e))

\* a let statement without its identifier or without its =, and no comment
Malformed(toks) ==
    /\ Len(toks) >= 1
    /\ \A i \in 1..Len(toks) : toks[i][1] # "COMMENT"
    /\ toks[1][1] = "LET"
    /\ ~(Len(toks) >= 3 /\ toks[2][1] = "IDENT" /\ toks[3][1] = "=")

\* the place of the first ; of the tokens, 0 when there is none
Boundary(toks) ==
    LET semis == {i \in 1..Len(toks) : toks[i][1] = ";"} IN
    IF semis = {} THEN 0 ELSE CHOOSE i \in semis : \A j \in semis : i <= j

\* C19: a let statement without its identifier or its = gives one parse
\* error and no Let statement, and parsing resumes after the statement's ;
\* : its tokens give no further error and no statement, and the statements
\* after it are parsed as they are alone.
C19_MalformedLetResumes ==
    (ppc = "done" /\ Malformed(parser.toks) /\ Boundary(parser.toks) > 0) =>
        LET rest == SubSeq(parser.toks, Boundary(parser.toks) + 1, Len(parser.toks)) IN
        /\ Len(parser.errors) = 1
        /\ \A i \in 1..Len(ast) : ast[i] # NilLetStatement /\ ast[i][1] # "LetStatement"
        /\ ast = ParseProgram(rest).node

NotComment(tok) == tok[1] # "COMMENT"

\* the token stream without its COMMENT tokens
StripComments(toks) == SelectSeq(toks, NotComment)

\* C20: COMMENT tokens are transparent to parsing: a token stream with
\* COMMENT tokens put in anywhere gives the same AST and the same errors
\* as the stream without them, and the peek token, which the peek tests and
\* the precedence lookup read, is never a COMMENT.
C20_CommentsTransparent ==
    /\ ppc = "parse" => parser.peekToken[1] # "COMMENT"
    /\ ppc = "done" =>
          LET plain == ParseProgram(StripComments(parser.toks)) IN
          /\ ast = plain.node
          /\ parser.errors = plain.p.errors

----------------------------------------------------------------------------
(* The lexer *)

\* the lexer has consumed its whole input: its current byte is past the end
Exhausted(lx) == lx.position >= Len(lx.input)

\* the current byte is the byte of the input at position, or 0 past its end
InInput(lx) ==
    lx.ch = IF lx.position < Len(lx.input) THEN lx.input[lx.position + 1] ELSE NUL

\* C21: once the lexer has consumed its whole input, every NextToken call
\* returns an EOF token with the empty literal, however many calls follow,
\* and no call takes a byte from outside the input.
C21_EOFForEver ==
    [][/\ Exhausted(lexer) => tokens'[Len(tokens')] = Token("EOF", <<>>)
       /\ Exhausted(lexer) => Exhausted(lexer')
       /\ InInput(lexer')]_vars

\* a token, then EOF returned three times
C21_Witness ==
    /\ Len(tokens) = 4
    /\ tokens[1][1] = "IDENT"
    /\ \A i \in 2..4 : tokens[i] = Token("EOF", <<>>)

\* C30: the lexer returns EOF only when its input is exhausted, and no
\* token other than EOF follows an EOF token, whatever bytes the input
\* holds.
C30_EOFOnlyAtEnd ==
    [][/\ tokens'[Len(tokens')][1] = "EOF" => Exhausted(lexer')
       /\ (tokens # <<>> /\ tokens[Len(tokens)][1] = "EOF") =>
              tokens'[Len(tokens')][1] = "EOF"]_vars

\* C22: the parser never aborts: for every input New and ParseProgram return
\* a Program and an error list without a crash, every failure being a
\* message in errors.
C22_ParserNeverAborts == ppc # "panic" /\ parser.panic = ""

\* the error list l is the start of the error list m
Grows(l, m) == Len(l) <= Len(m) /\ SubSeq(m, 1, Len(l)) = l

\* C23: the parser does not stop on the first error: ParseProgram terminates
\* with the current token at EOF whether or not errors were recorded, the
\* error list only grows, and a statement that follows an erroneous one is
\* still parsed and appended to the Program.
C23_ParserTerminates ==
    /\ <>(ppc = "done" /\ curTokenIs(parser, "EOF"))
    /\ [][/\ Grows(parser.errors, parser'.errors)
          /\ (parser.errors # <<>> /\ ppc = "parse" /\ ~curTokenIs(parser, "EOF"))
                => Len(ast') = Len(ast) + 1]_vars

\* the number of consecutive COMMENT tokens of toks from the index i on
RECURSIVE CommentRun(_, _)
CommentRun(toks, i) ==
    IF i >= 1 /\ i <= Len(toks) /\ toks[i][1] = "COMMENT"
    THEN 1 + CommentRun(toks, i + 1)
    ELSE 0

\* C26: nextToken terminates on comments: whenever it has returned, the
\* current token is not a COMMENT, and a call makes one lexer call and one
\* more for each COMMENT of the run it meets, also when the run ends the
\* stream.
C26_NextTokenSkipsComments ==
    parser.panic = "" =>
        /\ parser.curToken[1] # "COMMENT"
        /\ nextToken(parser).curToken[1] # "COMMENT"
        /\ nextToken(parser).pos
              = parser.pos + 1 + CommentRun(parser.toks, parser.pos)

\* the peek token starts a run of two COMMENT tokens that ends the stream,
\* and nextToken has gone through it to EOF
C26_Witness ==
    /\ ppc = "parse"
    /\ parser.panic = ""
    /\ parser.curToken[1] = "INT"
    /\ parser.peekToken[1] = "COMMENT"
    /\ CommentRun(parser.toks, parser.pos) = 2
    /\ lexerNext([parser EXCEPT !.pos = parser.pos + 2]) = TokenEOF
    /\ nextToken(parser).curToken = TokenEOF
    /\ nextToken(parser).pos = parser.pos + 3

\* the decimal value of a run of digits
RECURSIVE Decimal(_)
Decimal(run) ==
    IF run = <<>> THEN 0
    ELSE 10 * Decimal(SubSeq(run, 1, Len(run) - 1)) + DigitValue(run[Len(run)])

\* C25: the value of an integer literal is the decimal value of its run of
\* digits: a run whose decimal value fits (leading zeros included) parses
\* into an IntegerLiteral of that value with no error, and a run that does
\* not fit records cannot parse <literal> as integer.
C25_IntegerLiteralDecimal ==
    (ppc = "done" /\ \E run \in DigitRuns : parser.toks = Lex(run)) =>
        /\ Len(ast) = 1
        /\ ast[1][2][1] = "IntegerLiteral"
        /\ IF Decimal(parser.toks[1][2]) <= MaxLit
           THEN /\ ast[1][2][2] = Decimal(parser.toks[1][2])
                /\ parser.errors = <<>>
           ELSE parser.errors = <<"cannot parse " \o Concat(parser.toks[1][2])
                                    \o " as integer">>

----------------------------------------------------------------------------
(* The evaluator, again *)

\* C27: Eval always returns a value: the evaluation of every program ends
\* without a crash and returns an object, never nil, and NULL when the
\* program has no statement to take a value from.
C27_EvalReturnsValue ==
    /\ pc # "panic"
    /\ pc = "done" => result # Nil
    /\ (pc = "done" /\ program = <<>>) => result = NULL

\* the index in the log l of the exit of the node entered at i, 0 when the
\* evaluation was aborted before it
RECURSIVE Scan(_, _, _)
Scan(l, j, depth) ==
    IF j > Len(l) THEN 0
    ELSE IF l[j][1] = "enter" THEN Scan(l, j + 1, depth + 1)
    ELSE IF depth = 1 THEN j
    ELSE Scan(l, j + 1, depth - 1)

MatchExit(l, i) == Scan(l, i + 1, 1)

\* C28: an infix expression evaluates its right operand before its left
\* one: the right operand is entered first; when it yields an Error the infix
\* expression exits with that Error and the left operand is not evaluated,
\* whatever the left operand would yield; otherwise the left one is next.
C28_RightOperandFirst ==
    \A i \in 1..Len(log) :
        (log[i][1] = "enter" /\ log[i][2][1] = "InfixExpression") =>
            /\ i < Len(log)
            /\ log[i + 1] = Enter(log[i][2][4])
            /\ MatchExit(log, i + 1) # 0 =>
                  /\ MatchExit(log, i + 1) < Len(log)
                  /\ log[MatchExit(log, i + 1) + 1] =
                        IF KindOf(log[MatchExit(log, i + 1)][3]) = ERROR_OBJ
                        THEN Exit(log[i][2], log[MatchExit(log, i + 1)][3])
                        ELSE Enter(log[i][2][2])

\* w + x with neither bound: both operands yield an Error, the result is
\* the one of x and w was never evaluated
C28_Witness ==
    /\ pc = "done"
    /\ program = <<ES(InfixExpression(Identifier("w"), "+", UnboundX)),
                   ES(Identifier("y"))>>
    /\ result = evalIdentifier(UnboundX, NewEnvironment)
    /\ KindOf(evalIdentifier(Identifier("w"), NewEnvironment)) = ERROR_OBJ
    /\ result # evalIdentifier(Identifier("w"), NewEnvironment)
    /\ \A i \in 1..Len(log) : log[i] # Enter(Identifier("w"))

\* C29: no binding of the environment holds a ReturnValue or an Error, and
\* let x = if (true) { return 1 } ends the program with the value 1: the
\* return is not stored in x.
C29_BindingsArePlain ==
    /\ \A i \in 1..Len(env) : \A name \in DOMAIN env[i] :
          KindOf(env[i][name]) \notin {RETURN_VALUE_OBJ, ERROR_OBJ}
    /\ (program # <<>> /\ log # <<>>
          /\ Head(program) = LetStatement("x", ReturnsInIf)) =>
             /\ pc = "done"
             /\ idx = 1
             /\ result = NewInteger(1)

\* the expression of a statement: what it evaluates
ExprOf(stmt) == IF NodeType(stmt) = "LetStatement" THEN stmt[3] ELSE stmt[2]

\* a let statement was entered in the evaluation with the log l
ExecutesLet(l) ==
    \E i \in 1..Len(l) : l[i][1] = "enter" /\ l[i][2][1] = "LetStatement"

\* the second evaluation of exp, in the environment e after the first one,
\* yields the value the first one yielded
SameTwice(exp, e) ==
    Eval(exp, e, <<>>).panic = "" =>
        /\ Eval(exp, Eval(exp, e, <<>>).env, <<>>).panic = ""
        /\ Eval(exp, Eval(exp, e, <<>>).env, <<>>).obj = Eval(exp, e, <<>>).obj

\* C24 as stated: evaluating any expression twice in the same environment
\* yields equal values, if-expressions whose blocks contain let included.
C24_TwiceEqual ==
    \A i \in 1..Len(program) : SameTwice(ExprOf(program[i]), env)

\* C24: evaluating an expression twice in the same environment yields equal
\* values whenever its first evaluation executes no let.
C24_TwiceEqualWithoutLet ==
    \A i \in 1..Len(program) :
        ~ExecutesLet(Eval(ExprOf(program[i]), env, <<>>).log) =>
            /\ SameTwice(ExprOf(program[i]), env)
            /\ Eval(ExprOf(program[i]), env, <<>>).env = env

\* x + 1 and an if-expression that takes a block without a let have been
\* evaluated twice with x bound, with equal values
C24_Witness ==
    /\ pc = "done"
    /\ Len(program) = 3
    /\ program[2] = program[3]
    /\ result # Nil
    /\ KindOf(result) = INTEGER_OBJ
    /\ ~ExecutesLet(Eval(ExprOf(program[3]), env, <<>>).log)
    /\ NodeType(ExprOf(program[3])) = "IfExpression"
    /\ Eval(ExprOf(program[3]), env, <<>>).obj = result

====
